---- MODULE Spec2Model ----
(***************************************************************************)
(* Schema-driven validation of a JSON document plus flat string overlays   *)
(* (package view, vo.go) and the hierarchical result container (package    *)
(* internal, object.go).                                                   *)
(*                                                                         *)
(* Representation                                                          *)
(*   - a JSON text is a record [t, v]: t = "Empty" for the empty string,   *)
(*     "Invalid" for text gjson.Valid rejects, otherwise the kind of the   *)
(*     root node ("Object", "Array", "String", "Number", "True", "False",  *)
(*     "Null"); an object carries m, a function key -> node, an array a, a  *)
(*     sequence of nodes, and a scalar v, its raw text;                    *)
(*   - an overlay (url parameter) map is a function key -> raw string;     *)
(*   - a qualified name is the sequence of its '.'-separated segments;     *)
(*   - a Go error is a record: a leaf error [kind, msg, arg], a wrapping   *)
(*     error [kind, ctx, arg, err] (fmt.Errorf with %w) or an aggregate    *)
(*     [kind, errors] (a validationError);                                  *)
(*   - a mo.Result is [kind |-> "ok", val], [kind |-> "err", err] or       *)
(*     [kind |-> "panic", msg] when the call does not return.              *)
(***************************************************************************)
EXTENDS Integers, Sequences, FiniteSets, TLC

\* Longest JSON array in the inputs.
MaxArrayLen == 3
\* Largest number of overlay maps passed to one Validate call.
MaxOverlays == 2

VARIABLES
    schema,     \* the receiver *Schema of the Validate call
    json,       \* the json argument
    urlParams,  \* the variadic overlay maps, in call order
    pc,         \* position inside Schema.Validate
    idx,        \* index of the next overlay map / next field
    urlPair,    \* local urlPair: the merged overlay map
    errs,       \* local errs.errors: field path -> error
    object,     \* local object: the internal.Data under construction
    ret,        \* the value Validate returned ([kind |-> "none"] while running)
    other,      \* arguments, locals and result of a second call on the same
                \* Schema while the first one runs ([pc |-> "none"]: no such call)
    call        \* a call of another function of the package: its name, its
                \* arguments and what it returned ([op |-> "none"]: no such call)

vars == <<schema, json, urlParams, pc, idx, urlPair, errs, object, ret, other, call>>

-----------------------------------------------------------------------------
(* Go values *)

Nil == [kind |-> "nil"]
Errorf(msg, arg) == [kind |-> "leaf", msg |-> msg, arg |-> arg]
Wrapf(ctx, arg, err) == [kind |-> "wrap", ctx |-> ctx, arg |-> arg, err |-> err]

Ok(val) == [kind |-> "ok", val |-> val]
Err(err) == [kind |-> "err", err |-> err]
Panic(msg) == [kind |-> "panic", msg |-> msg]

EmptyMap == <<>>
Put(m, k, v) == [x \in DOMAIN m \cup {k} |-> IF x = k THEN v ELSE m[x]]

\* validator.ErrRequired, ErrTypeMismatch, ErrLengthMin, ErrNotOneOf
ErrRequired == "is required but not found"
ErrTypeMismatch == "type mismatch"
ErrLengthMin == "length must be at least"
ErrNotOneOf == "value must be one of"

-----------------------------------------------------------------------------
(* validationError *)

\* validationError.add
add(e, fieldName, err) ==
    IF err.kind # "nil" THEN Put(e, fieldName, err) ELSE e

\* validationError.err
err(e) ==
    IF DOMAIN e = {} THEN Nil ELSE [kind |-> "agg", errors |-> e]

\* errors.As(err, &nested) with nested a validationError pointer: the first
\* aggregate on the %w chain, Nil when there is none.
RECURSIVE AsValidationError(_)
AsValidationError(e) ==
    IF e.kind = "agg" THEN e
    ELSE IF e.kind = "wrap" THEN AsValidationError(e.err)
    ELSE Nil

\* The leaf at the end of a %w chain (the error the messages end with).
RECURSIVE Cause(_)
Cause(e) == IF e.kind = "wrap" THEN Cause(e.err) ELSE e

-----------------------------------------------------------------------------
(* gjson, as vo.go uses it *)

Missing == [t |-> "Missing", v |-> ""]

\* gjson.Valid(json); Validate asks it for non-empty text only.
Valid(j) == j.t \notin {"Invalid", "Empty"}

\* Result.Exists: true of every node a path found, a JSON null included.
Exists(node) == node.t # "Missing"

\* Result.IsObject, Result.IsArray
IsObjectNode(node) == node.t = "Object"
IsArrayNode(node) == node.t = "Array"

\* Result.Type, printed in the type-mismatch message.
RawType(node) == IF node.t \in {"Object", "Array"} THEN "JSON" ELSE node.t

\* gjson.Get(json, name) for a name without path syntax: the member of an
\* object root, nothing for any other root and for the empty text.
Get_json(j, name) ==
    IF j.t = "Object" /\ name \in DOMAIN j.m THEN j.m[name] ELSE Missing

\* gjson.Get(json, "@keys").Array() read through Result.String: the member
\* names of an object; for an array one null per element and for a scalar a
\* single null, all read as the empty string; nothing for the empty text.
JsonKeys(j) ==
    CASE j.t = "Object" -> DOMAIN j.m
      [] j.t = "Array" -> IF Len(j.a) = 0 THEN {} ELSE {""}
      [] j.t \in {"Empty", "Invalid", "Missing"} -> {}
      [] OTHER -> {""}

-----------------------------------------------------------------------------
(* Validators and coercion *)

\* validator.MinLength(min): the named predicate over a coerced string.
MinLength(min) == [name |-> "min_length", min |-> min]

\* validator.OneOf(allowed...)
OneOf(allowed) == [name |-> "one_of", allowed |-> allowed]

\* Applying a validator.Validator[string] to a value.
RunValidator(vfn, val) ==
    CASE vfn.name = "min_length" ->
            IF Len(val) < vfn.min THEN Errorf(ErrLengthMin, "") ELSE Nil
      [] vfn.name = "one_of" ->
            IF val \notin vfn.allowed THEN Errorf(ErrNotOneOf, "") ELSE Nil

\* typedJson[T] for T = string.
typedJson(res) ==
    IF res.t = "String" THEN Ok(res.v)
    ELSE Err(Errorf(ErrTypeMismatch, RawType(res)))

\* typedString[T] for T = string: validator.ParseStringTo passes the text on.
typedString(s) == Ok(s)

\* The first validator of vs (from position k) that rejects val, else Nil.
RECURSIVE FirstFailure(_, _, _)
FirstFailure(vs, val, k) ==
    IF k > Len(vs) THEN Nil
    ELSE IF RunValidator(vs[k], val).kind # "nil" THEN RunValidator(vs[k], val)
    ELSE FirstFailure(vs, val, k + 1)

\* The last validator of vs that rejects val, else Nil: the array loop adds
\* every failure under the same key, so the last one stays.
RECURSIVE LastFailure(_, _, _)
LastFailure(vs, val, k) ==
    IF k = 0 THEN Nil
    ELSE IF RunValidator(vs[k], val).kind # "nil" THEN RunValidator(vs[k], val)
    ELSE LastFailure(vs, val, k - 1)

-----------------------------------------------------------------------------
(* JSONField *)

\* JSONField.Name: the last segment of the qualified name.
Name(f) ==
    IF Len(f.qualifiedName) = 0 THEN "" ELSE f.qualifiedName[Len(f.qualifiedName)]

IsArray(f) == f.array
IsObject(f) == f.object
Required(f) == f.required

\* JSONField.embeddedObject: an option, here a sequence of length 0 or 1.
embeddedObject(f) == f.embedded

\* JSONField.UniqueName, as the segments setNestedField splits it into.
UniqueName(f) == f.qualifiedName

\* trait: the descriptor the view-only constructors build.
trait(name, isArray, isObject, nested, vfs) ==
    [qualifiedName |-> <<name>>, required |-> TRUE, array |-> isArray,
     object |-> isObject, embedded |-> nested, validators |-> vfs]

Field(name, vfs) == trait(name, FALSE, FALSE, <<>>, vfs)
ArrayField(name, vfs) == trait(name, TRUE, FALSE, <<>>, vfs)
ObjectField(name, nested) == trait(name, FALSE, TRUE, <<nested>>, <<>>)
ArrayOfObjectField(name, nested) == trait(name, TRUE, TRUE, <<nested>>, <<>>)

\* JSONField.Optional
Optional(f) == [f EXCEPT !.required = FALSE]

\* WithFields for an argument list that passes its duplicate checks.
WithFields(fields) == [fields |-> fields, allowUnknownFields |-> FALSE]

\* Schema.AllowUnknownFields
AllowUnknownFields(s) == [s EXCEPT !.allowUnknownFields = TRUE]

\* JSONField.validateRaw
validateRaw(f, v) ==
    LET typedValResult == typedString(v) IN
    IF typedValResult.kind = "err"
    THEN Err(Wrapf("field", Name(f), typedValResult.err))
    ELSE LET failure == FirstFailure(f.validators, typedValResult.val, 1) IN
         IF failure.kind # "nil" THEN Err(Wrapf("field", Name(f), failure))
         ELSE Ok([t |-> "string", v |-> typedValResult.val])

-----------------------------------------------------------------------------
(* internal.Data and the storing helpers *)

\* fmt.Sprintf("%s[%d]", f.Name(), index.Int()): i counts from 0.
IndexKey(name, i) == name \o "[" \o ToString(i) \o "]"

\* setObjectField: a plain internal.Data payload becomes a valueObject, every
\* other value is stored as it is.
setObjectField(obj, key, val) ==
    IF val.t = "Data" THEN Put(obj, key, [t |-> "valueObject", m |-> val.m])
    ELSE Put(obj, key, val)

\* setNestedField on the split key: descends through (or creates) one
\* internal.Data per leading segment and stores under the last one. An
\* existing valueObject on the way is replaced by a Data copy of its fields,
\* any other existing value by a fresh map.
RECURSIVE setNestedField(_, _, _)
setNestedField(obj, parts, val) ==
    IF Len(parts) = 0 THEN obj
    ELSE IF Len(parts) = 1 THEN setObjectField(obj, parts[1], val)
    ELSE LET p == parts[1]
             cur == IF p \in DOMAIN obj /\ obj[p].t \in {"Data", "valueObject"}
                    THEN obj[p].m ELSE EmptyMap
         IN Put(obj, p, [t |-> "Data", m |-> setNestedField(cur, Tail(parts), val)])

\* strings.Join(parts, "."): the path string a caller of Get writes.
RECURSIVE JoinPath(_)
JoinPath(parts) ==
    IF Len(parts) = 0 THEN ""
    ELSE IF Len(parts) = 1 THEN parts[1]
    ELSE parts[1] \o "." \o JoinPath(Tail(parts))

None == [kind |-> "none"]
Some(val) == [kind |-> "some", val |-> val]

\* strconv.Atoi on a path segment: the index it denotes, -1 when it is no
\* decimal rendering of an index of a sequence of length n.
Atoi(part, n) ==
    IF \E i \in 0 .. n : ToString(i) = part
    THEN CHOOSE i \in 0 .. n : ToString(i) = part ELSE -1

\* The walk of internal.Get over the split path, from currentValue.
RECURSIVE Walk(_, _)
Walk(currentValue, parts) ==
    IF Len(parts) = 0 THEN Some(currentValue)
    ELSE LET part == parts[1] IN
         IF currentValue.t \in {"Data", "valueObject"}
         THEN IF part \in DOMAIN currentValue.m
              THEN Walk(currentValue.m[part], Tail(parts)) ELSE None
         ELSE IF currentValue.t \in {"[]string", "[]ValueObject"}
         THEN LET index == Atoi(part, Len(currentValue.a)) IN
              IF index >= 0 /\ index < Len(currentValue.a)
              THEN Walk(currentValue.a[index + 1], Tail(parts))
              ELSE Panic("xql: bad index")
         ELSE None

\* internal.Get[any](data, name), name given by its segments: the verbatim
\* key first, then the walk.
Get(data, parts) ==
    IF JoinPath(parts) \in DOMAIN data THEN Some(data[JoinPath(parts)])
    ELSE Walk([t |-> "Data", m |-> data], parts)

-----------------------------------------------------------------------------
(* Schema.Validate and JSONField.validate *)

\* voFields: leaf name -> "is an array or an object field" (lo.SliceToMap,
\* a later field of the same name overwriting an earlier one).
voFields(s) ==
    [n \in {Name(s.fields[k]) : k \in DOMAIN s.fields} |->
        LET k == CHOOSE k \in DOMAIN s.fields :
                    /\ Name(s.fields[k]) = n
                    /\ \A m \in DOMAIN s.fields : Name(s.fields[m]) = n => m <= k
        IN IsArray(s.fields[k]) \/ IsObject(s.fields[k])]

\* urlPairStep without the test for a key an earlier overlay already set.
urlPairStep_noDuplicateTest(s, st, k, v) ==
    LET e2 == IF ~s.allowUnknownFields
              THEN IF k \notin DOMAIN voFields(s)
                   THEN add(st.errs, k, Errorf("unknown url parameter", k))
                   ELSE IF voFields(s)[k]
                        THEN add(st.errs, k, Errorf("url parameter is mapped to a embedded object", k))
                        ELSE st.errs
              ELSE st.errs
    IN [urlPair |-> Put(st.urlPair, k, v), errs |-> e2]

\* The body of the inner overlay loop for one pair (k, v): st is
\* [urlPair, errs].
urlPairStep(s, st, k, v) ==
    LET e1 == IF k \in DOMAIN st.urlPair
              THEN add(st.errs, k, Errorf("duplicated url parameter", k))
              ELSE st.errs
        e2 == IF ~s.allowUnknownFields
              THEN IF k \notin DOMAIN voFields(s)
                   THEN add(e1, k, Errorf("unknown url parameter", k))
                   ELSE IF voFields(s)[k]
                        THEN add(e1, k, Errorf("url parameter is mapped to a embedded object", k))
                        ELSE e1
              ELSE e1
    IN [urlPair |-> Put(st.urlPair, k, v), errs |-> e2]

\* Go ranges over a map in an unspecified order: the orders in which a
\* range loop can visit the keys S, and one of them.
Orders(S) ==
    {q \in [1 .. Cardinality(S) -> S] : \A a, b \in DOMAIN q : a # b => q[a] # q[b]}
SomeOrder(S) == CHOOSE q \in Orders(S) : TRUE

\* The inner loop over one overlay map, visiting its keys in the given
\* order.
RECURSIVE mergeOverlayInOrder(_, _, _, _)
mergeOverlayInOrder(s, st, pair, order) ==
    IF order = <<>> THEN st
    ELSE mergeOverlayInOrder(s, urlPairStep(s, st, Head(order), pair[Head(order)]),
                             pair, Tail(order))

\* The inner loop over the keys of one overlay map, in one of the orders.
mergeOverlay(s, st, pair, keys) == mergeOverlayInOrder(s, st, pair, SomeOrder(keys))

\* The outer loop over urlParams, from map number k on.
RECURSIVE mergeOverlays(_, _, _, _)
mergeOverlays(s, st, params, k) ==
    IF k > Len(params) THEN st
    ELSE mergeOverlays(s, mergeOverlay(s, st, params[k], DOMAIN params[k]), params, k + 1)

\* The callback of lo.ForEach over the top-level JSON keys, for one key.
jsonKeyStep(s, pairs, e, jsonKey) ==
    LET e1 == IF jsonKey \in DOMAIN pairs
              THEN add(e, jsonKey, Errorf("duplicate parameter in url and json", jsonKey))
              ELSE e
    IN IF ~s.allowUnknownFields /\ jsonKey \notin DOMAIN voFields(s)
       THEN add(e1, jsonKey, Errorf("unknown json field", jsonKey))
       ELSE e1

\* lo.ForEach over gjson.Get(json, "@keys"): each key writes its own entry.
RECURSIVE checkJsonKeys(_, _, _, _)
checkJsonKeys(s, pairs, e, keys) ==
    IF keys = {} THEN e
    ELSE LET k == CHOOSE k \in keys : TRUE
         IN checkJsonKeys(s, pairs, jsonKeyStep(s, pairs, e, k), keys \ {k})

\* The loop that copies the overlay keys into object, in the given order.
RECURSIVE copyPairs(_, _, _)
copyPairs(pairs, obj, order) ==
    IF order = <<>> THEN obj
    ELSE copyPairs(pairs,
                   IF Head(order) \in DOMAIN obj THEN obj
                   ELSE Put(obj, Head(order), [t |-> "string", v |-> pairs[Head(order)]]),
                   Tail(order))

\* The copy of the overlay keys into the result of a permissive Schema,
\* ranging over urlPair in the given order.
copyUnknownInOrder(s, pairs, obj, order) ==
    IF s.allowUnknownFields THEN copyPairs(pairs, obj, order) ELSE obj

copyUnknown(s, pairs, obj) == copyUnknownInOrder(s, pairs, obj, SomeOrder(DOMAIN pairs))

\* The keys the merge of a failed field result ranges over.
MergeKeys(rsErr) ==
    IF AsValidationError(rsErr).kind = "agg"
    THEN DOMAIN AsValidationError(rsErr).errors
    ELSE {}

\* for key, err := range nestedErr.errors { errs.add(key, err) }, in the
\* given order.
RECURSIVE addAll(_, _, _)
addAll(e, errors, order) ==
    IF order = <<>> THEN e
    ELSE addAll(add(e, Head(order), errors[Head(order)]), errors, Tail(order))

\* The same loop with every error added under the one key name.
RECURSIVE addAllUnder(_, _, _, _)
addAllUnder(e, name, errors, order) ==
    IF order = <<>> THEN e
    ELSE addAllUnder(add(e, name, errors[Head(order)]), name, errors, Tail(order))

\* mergeFieldErrorInOrder without the flat merge: the field's error, an
\* aggregate included, goes under the field's own name.
mergeFieldErrorInOrder_underFieldName(e, f, rsErr, order) == add(e, Name(f), rsErr)

\* mergeFieldErrorInOrder with the nested errors added under the field's
\* name instead of their own keys.
mergeFieldErrorInOrder_keyedByField(e, f, rsErr, order) ==
    IF AsValidationError(rsErr).kind = "agg"
    THEN addAllUnder(e, Name(f), AsValidationError(rsErr).errors, order)
    ELSE add(e, Name(f), rsErr)

\* The merge of a failed field result into errs (the rs.IsError() branch),
\* ranging over the nested errors in the given order.
mergeFieldErrorInOrder(e, f, rsErr, order) ==
    IF AsValidationError(rsErr).kind = "agg"
    THEN addAll(e, AsValidationError(rsErr).errors, order)
    ELSE add(e, Name(f), rsErr)

mergeFieldError(e, f, rsErr) ==
    mergeFieldErrorInOrder(e, f, rsErr, SomeOrder(MergeKeys(rsErr)))

\* The unwrapping of a failed array element: the single inner error of a
\* one-entry aggregate, else the error as returned.
unwrapSingle(errToAdd) ==
    LET nested == AsValidationError(errToAdd) IN
    IF nested.kind = "agg" /\ Cardinality(DOMAIN nested.errors) = 1
    THEN nested.errors[CHOOSE k \in DOMAIN nested.errors : TRUE]
    ELSE errToAdd

\* primitiveElement that looks at no element once one has failed.
primitiveElement_stopAtFirstFailure(f, acc, i, element) ==
    IF DOMAIN acc.errs # {} THEN acc
    ELSE LET typedVal == typedJson(element) IN
         IF typedVal.kind = "err"
         THEN [acc EXCEPT !.errs = add(@, IndexKey(Name(f), i), typedVal.err)]
         ELSE LET e1 == add(acc.errs, IndexKey(Name(f), i),
                            LastFailure(f.validators, typedVal.val, Len(f.validators)))
              IN [errs |-> e1,
                  values |-> IF err(e1).kind = "nil"
                             THEN Append(acc.values, [t |-> "string", v |-> typedVal.val])
                             ELSE acc.values,
                  panic |-> acc.panic]

\* primitiveElement that leaves a failing element out and records nothing.
primitiveElement_skipFailed(f, acc, i, element) ==
    IF typedJson(element).kind = "err" THEN acc
    ELSE IF LastFailure(f.validators, typedJson(element).val, Len(f.validators)).kind # "nil"
    THEN acc
    ELSE [acc EXCEPT !.values = Append(@, [t |-> "string", v |-> typedJson(element).val])]

\* The ForEach callback of an array of primitives for element number i
\* (from 0): acc is [errs, values].
primitiveElement(f, acc, i, element) ==
    LET typedVal == typedJson(element) IN
    IF typedVal.kind = "err"
    THEN [acc EXCEPT !.errs = add(@, IndexKey(Name(f), i), typedVal.err)]
    ELSE LET e1 == add(acc.errs, IndexKey(Name(f), i),
                       LastFailure(f.validators, typedVal.val, Len(f.validators)))
         IN [errs |-> e1,
             values |-> IF err(e1).kind = "nil"
                        THEN Append(acc.values, [t |-> "string", v |-> typedVal.val])
                        ELSE acc.values,
             panic |-> acc.panic]

RECURSIVE forEachPrimitive(_, _, _, _)
forEachPrimitive(f, node, acc, k) ==
    IF k > Len(node.a) THEN acc
    ELSE forEachPrimitive(f, node, primitiveElement(f, acc, k - 1, node.a[k]), k + 1)

\* What the callback of an array of objects does with the result of the
\* element's nested Validate.
elementResult(f, acc, i, result) ==
    IF result.kind = "panic" THEN [acc EXCEPT !.panic = TRUE]
    ELSE IF result.kind = "err"
    THEN [acc EXCEPT !.errs = add(@, IndexKey(Name(f), i), unwrapSingle(result.err))]
    ELSE IF err(acc.errs).kind = "nil"
    THEN [acc EXCEPT !.values = Append(@, result.val)]
    ELSE acc

\* What validate returns for an embedded object, given the result of the
\* nested Validate.
nestedObjectResult(f, nestedResult) ==
    IF nestedResult.kind = "err"
    THEN Err(Wrapf("field validation failed", Name(f), nestedResult.err))
    ELSE nestedResult

\* What validate returns for an array once ForEach has run: acc is
\* [errs, values, panic], sliceType the Go type of values.
arrayResult(acc, sliceType) ==
    IF acc.panic THEN Panic("no such element")
    ELSE IF err(acc.errs).kind # "nil" THEN Err(err(acc.errs))
    ELSE Ok([t |-> sliceType, a |-> acc.values])

\* The field loop's handling of the result rs of validate or validateRaw:
\* st is [errs, object, panic].
storeResult(st, field, rs, order) ==
    IF rs.kind = "panic" THEN [st EXCEPT !.panic = TRUE]
    ELSE IF rs.kind = "err"
    THEN [st EXCEPT !.errs = mergeFieldErrorInOrder(@, field, rs.err, order)]
    ELSE [st EXCEPT !.object = setNestedField(@, UniqueName(field), rs.val)]

\* The return statement: the aggregated error if there is one, else the
\* valueObject around object.
result(e, obj) ==
    IF err(e).kind # "nil" THEN Err(err(e)) ELSE Ok([t |-> "valueObject", m |-> obj])

\* The end of Validate, given urlPair and the state fin the field loop
\* leaves.
finish(s, pairs, fin) ==
    IF fin.panic THEN Panic("no such element")
    ELSE result(fin.errs, copyUnknown(s, pairs, fin.object))

\* The JSON-key pass after the overlay loop has left st.
structuralKeys(s, j, st) ==
    [urlPair |-> st.urlPair,
     errs |-> checkJsonKeys(s, st.urlPair, st.errs, JsonKeys(j))]

\* The structural phase: urlPair and errs as they stand at the "fail first"
\* test.
structural(s, j, params) ==
    structuralKeys(s, j, mergeOverlays(s, [urlPair |-> EmptyMap, errs |-> EmptyMap], params, 1))

RECURSIVE Validate(_, _, _), validate(_, _), objectElement(_, _, _, _),
          forEachObject(_, _, _, _), fieldStep(_, _, _, _, _), fieldLoop(_, _, _, _, _),
          fieldPhase(_, _, _), fieldResult(_, _, _), fieldStepInOrder(_, _, _, _, _, _)

\* The ForEach callback of an array of objects for element number i (from 0).
objectElement(f, acc, i, element) ==
    IF ~IsObjectNode(element)
    THEN [acc EXCEPT !.errs = add(@, IndexKey(Name(f), i),
                                  Errorf("expected a JSON object but got Clause", ""))]
    ELSE elementResult(f, acc, i, Validate(f.embedded[1], element, <<>>))

forEachObject(f, node, acc, k) ==
    IF k > Len(node.a) \/ acc.panic THEN acc
    ELSE forEachObject(f, node, objectElement(f, acc, k - 1, node.a[k]), k + 1)

\* JSONField.validate
validate(f, node) ==
    IF IsObject(f) /\ ~IsArray(f)
    THEN IF Len(embeddedObject(f)) = 0 THEN Panic("no such element")
         ELSE nestedObjectResult(f, Validate(embeddedObject(f)[1], node, <<>>))
    ELSE IF IsArray(f)
    THEN IF ~IsArrayNode(node)
         THEN Err(Errorf("expected a JSON array but got Clause", Name(f)))
         ELSE IF Len(embeddedObject(f)) > 0
         THEN arrayResult(forEachObject(f, node,
                            [errs |-> EmptyMap, values |-> <<>>, panic |-> FALSE], 1),
                          "[]ValueObject")
         ELSE arrayResult(forEachPrimitive(f, node,
                            [errs |-> EmptyMap, values |-> <<>>, panic |-> FALSE], 1),
                          "[]string")
    ELSE LET typedVal == typedJson(node) IN
         IF typedVal.kind = "err" THEN Err(Wrapf("field", Name(f), typedVal.err))
         ELSE LET failure == FirstFailure(f.validators, typedVal.val, 1) IN
              IF failure.kind # "nil" THEN Err(Wrapf("field", Name(f), failure))
              ELSE Ok([t |-> "string", v |-> typedVal.val])

\* The result of validate or validateRaw for a field that is present.
fieldResult(j, pairs, field) ==
    IF ~Exists(Get_json(j, Name(field))) THEN validateRaw(field, pairs[Name(field)])
    ELSE validate(field, Get_json(j, Name(field)))

\* The keys the merge of the field's result ranges over (none when the
\* field is absent or its result holds no aggregate).
FieldMergeKeys(j, pairs, field) ==
    IF ~Exists(Get_json(j, Name(field))) /\ Name(field) \notin DOMAIN pairs THEN {}
    ELSE IF fieldResult(j, pairs, field).kind # "err" THEN {}
    ELSE MergeKeys(fieldResult(j, pairs, field).err)

\* fieldStepInOrder that skips every absent field, required or not.
fieldStepInOrder_skipAbsent(s, j, pairs, st, field, order) ==
    IF ~Exists(Get_json(j, Name(field))) /\ Name(field) \notin DOMAIN pairs
    THEN st
    ELSE storeResult(st, field, fieldResult(j, pairs, field), order)

\* fieldStepInOrder that reports every absent field, optional or not.
fieldStepInOrder_requireAll(s, j, pairs, st, field, order) ==
    IF ~Exists(Get_json(j, Name(field))) /\ Name(field) \notin DOMAIN pairs
    THEN [st EXCEPT !.errs = add(@, Name(field), Errorf(ErrRequired, Name(field)))]
    ELSE storeResult(st, field, fieldResult(j, pairs, field), order)

\* One iteration of the field loop, the merge of a nested failure ranging
\* in the given order: st is [errs, object, panic].
fieldStepInOrder(s, j, pairs, st, field, order) ==
    IF ~Exists(Get_json(j, Name(field))) /\ Name(field) \notin DOMAIN pairs
    THEN IF Required(field)
         THEN [st EXCEPT !.errs = add(@, Name(field), Errorf(ErrRequired, Name(field)))]
         ELSE st
    ELSE storeResult(st, field, fieldResult(j, pairs, field), order)

\* One iteration of the field loop, in one of the orders.
fieldStep(s, j, pairs, st, field) ==
    fieldStepInOrder(s, j, pairs, st, field, SomeOrder(FieldMergeKeys(j, pairs, field)))

\* The field loop from field number k on.
fieldLoop(s, j, pairs, st, k) ==
    IF k > Len(s.fields) \/ st.panic THEN st
    ELSE fieldLoop(s, j, pairs, fieldStep(s, j, pairs, st, s.fields[k]), k + 1)

\* Validate from the "fail first" test on: st is [urlPair, errs].
fieldPhase(s, j, st) ==
    IF err(st.errs).kind # "nil" THEN Err(err(st.errs))
    ELSE finish(s, st.urlPair,
                fieldLoop(s, j, st.urlPair,
                          [errs |-> st.errs, object |-> EmptyMap, panic |-> FALSE], 1))

\* Schema.Validate as one call (the way JSONField.validate calls it).
Validate(s, j, params) ==
    IF j.t # "Empty" /\ ~Valid(j) THEN Err(Errorf("invalid json", ""))
    ELSE fieldPhase(s, j, structural(s, j, params))

-----------------------------------------------------------------------------
(* Inputs *)

Str(x) == [t |-> "String", v |-> x]
Num(x) == [t |-> "Number", v |-> x]
Null == [t |-> "Null", v |-> "null"]
Obj(m) == [t |-> "Object", m |-> m]
Arr(q) == [t |-> "Array", a |-> q]

\* Every function from a subset of keys to vals.
PartialMaps(keys, vals) == UNION {[d -> vals] : d \in SUBSET keys}

\* Every sequence over S of length at most n.
SeqsUpTo(S, n) == UNION {[1 .. k -> S] : k \in 0 .. n}

\* The embedded schema of the object fields: a required and an optional
\* string, both with a minimum length.
userSchema ==
    WithFields(<<Field("name", <<MinLength(2)>>),
                 Optional(Field("email", <<MinLength(2)>>))>>)

\* An embedded schema whose only field has the leaf name of a field of the
\* enclosing schema.
ownerSchema == WithFields(<<Field("id", <<MinLength(2)>>)>>)

\* The second field of a schema under test, by multiplicity; "Owner" is an
\* object field over ownerSchema.
SecondField(kind) ==
    CASE kind = "Scalar" -> Field("nick", <<MinLength(2), OneOf({"ab", "cd"})>>)
      [] kind = "Array" -> ArrayField("tags", <<MinLength(2), OneOf({"ab", "cd"})>>)
      [] kind = "Object" -> ObjectField("user", userSchema)
      [] kind = "ArrayOfObject" -> ArrayOfObjectField("items", userSchema)
      [] kind = "Owner" -> ObjectField("owner", ownerSchema)

Kinds == {"Scalar", "Array", "Object", "ArrayOfObject", "Owner"}

\* Schema{id: string(minLength 2), <second field>}: both required or both
\* optional, permissive or not.
SchemaOf(kind, required, permissive) ==
    LET fs == <<Field("id", <<MinLength(2)>>), SecondField(kind)>>
        gs == IF required THEN fs ELSE <<Optional(fs[1]), Optional(fs[2])>>
    IN IF permissive THEN AllowUnknownFields(WithFields(gs)) ELSE WithFields(gs)

Schemas == {SchemaOf(k, r, p) : k \in Kinds, r \in BOOLEAN, p \in BOOLEAN}

\* JSON objects for userSchema: name and email each absent, valid or too
\* short.
UserObjects == {Obj(m) : m \in PartialMaps({"name", "email"}, {Str("ab"), Str("a")})}

\* JSON objects for ownerSchema.
OwnerObjects == {Obj([id |-> Str("ab")]), Obj([id |-> Str("a")])}

\* Elements of the arrays in the inputs: strings that pass and fail the
\* length check and a number; objects with no, one and two invalid members
\* and a string.
ScalarElements == {Str("ab"), Str("cd"), Str("c"), Num("5")}
ObjectElements ==
    {Obj([name |-> Str("ab")]), Obj([name |-> Str("ab"), email |-> Str("ab")]),
     Obj([name |-> Str("a")]), Obj([email |-> Str("a")]), Str("x")}

\* The values a member of the top-level document takes.
Values ==
    {Str("ab"), Str("a"), Num("7"), Null}
    \cup UserObjects
    \cup OwnerObjects
    \cup {Arr(q) : q \in SeqsUpTo(ScalarElements, MaxArrayLen)}
    \cup {Arr(q) : q \in SeqsUpTo(ObjectElements, MaxArrayLen)}

\* A value the second field accepts.
GoodValue(kind) ==
    CASE kind = "Scalar" -> Str("ab")
      [] kind = "Array" -> Arr(<<Str("ab")>>)
      [] kind = "Object" -> Obj([name |-> Str("ab")])
      [] kind = "ArrayOfObject" -> Arr(<<Obj([name |-> Str("ab")])>>)
      [] kind = "Owner" -> Obj([id |-> Str("ab")])

KindOf(s) ==
    CHOOSE k \in Kinds : Name(SecondField(k)) = Name(s.fields[2])

\* The object with member id (when idv exists), the member key (when fv
\* exists) and the member extra (when ev exists).
Doc(idv, key, fv, ev) ==
    Obj([k \in (IF Exists(idv) THEN {"id"} ELSE {})
               \cup (IF Exists(fv) THEN {key} ELSE {})
               \cup (IF Exists(ev) THEN {"extra"} ELSE {}) |->
            IF k = "id" THEN idv ELSE IF k = key THEN fv ELSE ev])

\* Documents with every kind of value under the second field's key.
FieldDocs(s) ==
    {Doc(idv, Name(s.fields[2]), fv, ev) :
        idv \in {Missing, Str("ab"), Str("a"), Num("7")},
        fv \in {Missing} \cup Values,
        ev \in {Missing, Str("x")}}

\* Documents for the structural checks: no body, malformed text, a scalar
\* root, and objects whose members are acceptable values.
StructuralDocs(s) ==
    {[t |-> "Empty", v |-> ""], [t |-> "Invalid", v |-> "{\"id\": 123,}"], Str("ab")}
    \cup {Doc(idv, Name(s.fields[2]), fv, ev) :
            idv \in {Missing, Str("ab")},
            fv \in {Missing, GoodValue(KindOf(s))},
            ev \in {Missing, Str("x")}}

\* Overlay maps: one pair each, and one map with two pairs.
OverlayMaps(s) ==
    {("id" :> "ab"), ("id" :> "a"), (Name(s.fields[2]) :> "ab"), ("extra" :> "x"),
     ("id" :> "ab") @@ ("extra" :> "x")}

-----------------------------------------------------------------------------
(* The call Schema.Validate(json, urlParams...) step by step *)

NoCall == [pc |-> "none"]
NoOp == [op |-> "none"]

Init ==
    /\ schema \in Schemas
    /\ \/ /\ json \in StructuralDocs(schema)
          /\ urlParams \in SeqsUpTo(OverlayMaps(schema), MaxOverlays)
       \/ /\ json \in FieldDocs(schema)
          /\ urlParams = <<>>
    /\ pc = "start"
    /\ idx = 0
    /\ urlPair = EmptyMap
    /\ errs = EmptyMap
    /\ object = EmptyMap
    /\ ret = None
    /\ other = NoCall
    /\ call = NoOp

\* The validity test on entry and the creation of the locals.
CheckJson ==
    /\ pc = "start"
    /\ IF json.t # "Empty" /\ ~Valid(json)
       THEN /\ ret' = Err(Errorf("invalid json", ""))
            /\ pc' = "done"
            /\ UNCHANGED idx
       ELSE /\ pc' = "overlays"
            /\ idx' = 1
            /\ UNCHANGED ret
    /\ UNCHANGED <<call, other, schema, json, urlParams, urlPair, errs, object>>

\* One round of the loop over urlParams.
MergeOverlay ==
    /\ pc = "overlays"
    /\ idx <= Len(urlParams)
    /\ \E order \in Orders(DOMAIN urlParams[idx]) :
        LET st == mergeOverlayInOrder(schema, [urlPair |-> urlPair, errs |-> errs],
                                      urlParams[idx], order)
        IN /\ urlPair' = st.urlPair
           /\ errs' = st.errs
    /\ idx' = idx + 1
    /\ UNCHANGED <<call, other, schema, json, urlParams, pc, object, ret>>

\* The pass over the top-level JSON keys.
CheckJsonKeys ==
    /\ pc = "overlays"
    /\ idx > Len(urlParams)
    /\ errs' = checkJsonKeys(schema, urlPair, errs, JsonKeys(json))
    /\ pc' = "failfirst"
    /\ UNCHANGED <<call, other, schema, json, urlParams, idx, urlPair, object, ret>>

\* The "fail first" test left out: the field loop is entered whatever the
\* structural checks recorded.
FailFirst_alwaysContinue ==
    /\ pc = "failfirst"
    /\ pc' = "fields"
    /\ idx' = 1
    /\ UNCHANGED <<call, other, schema, json, urlParams, urlPair, errs, object, ret>>

\* "fail first for conflict": return the structural errors, or enter the
\* field loop.
FailFirst ==
    /\ pc = "failfirst"
    /\ IF err(errs).kind # "nil"
       THEN /\ ret' = Err(err(errs))
            /\ pc' = "done"
            /\ UNCHANGED idx
       ELSE /\ pc' = "fields"
            /\ idx' = 1
            /\ UNCHANGED ret
    /\ UNCHANGED <<call, other, schema, json, urlParams, urlPair, errs, object>>

\* A round of the field loop that clears the required flag of the
\* descriptor it has handled.
ValidateField_writesDescriptor ==
    /\ pc = "fields"
    /\ idx <= Len(schema.fields)
    /\ \E order \in Orders(FieldMergeKeys(json, urlPair, schema.fields[idx])) :
        LET st == fieldStepInOrder(schema, json, urlPair,
                                   [errs |-> errs, object |-> object, panic |-> FALSE],
                                   schema.fields[idx], order)
        IN /\ errs' = st.errs
           /\ object' = st.object
           /\ IF st.panic
              THEN ret' = Panic("no such element") /\ pc' = "done"
              ELSE UNCHANGED <<ret, pc>>
    /\ idx' = idx + 1
    /\ schema' = [schema EXCEPT !.fields[idx].required = FALSE]
    /\ UNCHANGED <<call, other, json, urlParams, urlPair>>

\* One round of the loop over s.fields.
ValidateField ==
    /\ pc = "fields"
    /\ idx <= Len(schema.fields)
    /\ \E order \in Orders(FieldMergeKeys(json, urlPair, schema.fields[idx])) :
        LET st == fieldStepInOrder(schema, json, urlPair,
                                   [errs |-> errs, object |-> object, panic |-> FALSE],
                                   schema.fields[idx], order)
        IN /\ errs' = st.errs
           /\ object' = st.object
           /\ IF st.panic
              THEN ret' = Panic("no such element") /\ pc' = "done"
              ELSE UNCHANGED <<ret, pc>>
    /\ idx' = idx + 1
    /\ UNCHANGED <<call, other, schema, json, urlParams, urlPair>>

\* The copy of the overlay keys and the return.
Return ==
    /\ pc = "fields"
    /\ idx > Len(schema.fields)
    /\ \E order \in Orders(DOMAIN urlPair) :
        object' = copyUnknownInOrder(schema, urlPair, object, order)
    /\ ret' = result(errs, object')
    /\ pc' = "done"
    /\ UNCHANGED <<call, other, schema, json, urlParams, idx, urlPair, errs>>

Next ==
    \/ CheckJson
    \/ MergeOverlay
    \/ CheckJsonKeys
    \/ FailFirst
    \/ ValidateField
    \/ Return

Spec == Init /\ [][Next]_vars

-----------------------------------------------------------------------------
(* Two goroutines calling Validate on one shared Schema *)

\* The inputs of the two calls: a document that passes, one whose fields
\* fail, one with an unknown key, malformed text, and no body with an
\* overlay.
SharedInputs(s) ==
    {[json |-> Doc(Str("ab"), Name(s.fields[2]), GoodValue(KindOf(s)), Missing),
      urlParams |-> <<>>],
     [json |-> Doc(Str("a"), Name(s.fields[2]), Str("a"), Missing), urlParams |-> <<>>],
     [json |-> Doc(Missing, Name(s.fields[2]), Missing, Str("x")), urlParams |-> <<>>],
     [json |-> [t |-> "Invalid", v |-> "{\"id\": 123,}"], urlParams |-> <<>>],
     [json |-> [t |-> "Empty", v |-> ""], urlParams |-> <<("id" :> "ab")>>]}

\* Both calls are at their entry; the variables hold the one that runs
\* next, other the one that waits.
TwoCallsInit ==
    /\ schema \in Schemas
    /\ \E a, b \in SharedInputs(schema) :
        /\ json = a.json
        /\ urlParams = a.urlParams
        /\ other = [json |-> b.json, urlParams |-> b.urlParams, pc |-> "start",
                    idx |-> 0, urlPair |-> EmptyMap, errs |-> EmptyMap,
                    object |-> EmptyMap, ret |-> None]
    /\ pc = "start"
    /\ idx = 0
    /\ urlPair = EmptyMap
    /\ errs = EmptyMap
    /\ object = EmptyMap
    /\ ret = None
    /\ call = NoOp

\* The scheduler lets the other goroutine run: the two calls trade places.
\* The Schema is the one thing they share.
Switch ==
    /\ other.pc # "none"
    /\ json' = other.json
    /\ urlParams' = other.urlParams
    /\ pc' = other.pc
    /\ idx' = other.idx
    /\ urlPair' = other.urlPair
    /\ errs' = other.errs
    /\ object' = other.object
    /\ ret' = other.ret
    /\ other' = [json |-> json, urlParams |-> urlParams, pc |-> pc, idx |-> idx,
                 urlPair |-> urlPair, errs |-> errs, object |-> object, ret |-> ret]
    /\ UNCHANGED <<call, schema>>

TwoCallsNext ==
    \/ CheckJson
    \/ MergeOverlay
    \/ CheckJsonKeys
    \/ FailFirst
    \/ ValidateField
    \/ Return
    \/ Switch

TwoCalls == TwoCallsInit /\ [][TwoCallsNext]_vars

-----------------------------------------------------------------------------
(* Construction of schemas: WithFields and Extend *)

\* Longest argument list of WithFields.
MaxFields == 3
\* Largest number of Extend calls chained on one Schema.
MaxExtends == 2

\* JSONField.QualifiedName, as its dot-separated segments; the empty string
\* is the one empty segment.
QualifiedName(f) == f.qualifiedName
EmptyString == <<"">>

\* WrapField on a persistent field whose QualifiedName() is
\* table.column.view.
WrapField(table, column, view, vfs) ==
    [qualifiedName |-> <<table, column, view>>, required |-> TRUE, array |-> FALSE,
     object |-> FALSE, embedded |-> <<>>, validators |-> vfs]

\* The loop over the leaf names in WithFields and in Extend, from field
\* number k on with the names seen so far: TRUE when it panics.
RECURSIVE duplicateName(_, _, _)
duplicateName(fields, k, names) ==
    IF k > Len(fields) THEN FALSE
    ELSE IF Name(fields[k]) \in names THEN TRUE
    ELSE duplicateName(fields, k + 1, names \cup {Name(fields[k])})

\* The loop over the qualified names in WithFields.
RECURSIVE duplicateQualifiedName(_, _, _)
duplicateQualifiedName(fields, k, qnames) ==
    IF k > Len(fields) THEN FALSE
    ELSE IF QualifiedName(fields[k]) = EmptyString
    THEN duplicateQualifiedName(fields, k + 1, qnames)
    ELSE IF QualifiedName(fields[k]) \in qnames THEN TRUE
    ELSE duplicateQualifiedName(fields, k + 1, qnames \cup {QualifiedName(fields[k])})

\* WithFields that does not look at the leaf names.
WithFieldsCall_noNameCheck(fields) ==
    IF duplicateQualifiedName(fields, 1, {})
    THEN Panic("dvo: duplicate qualified name in Schema definition")
    ELSE Ok(WithFields(fields))

\* A call of WithFields: the panic or the Schema.
WithFieldsCall(fields) ==
    IF duplicateName(fields, 1, {})
    THEN Panic("dvo: duplicate field name in Schema definition")
    ELSE IF duplicateQualifiedName(fields, 1, {})
    THEN Panic("dvo: duplicate qualified name in Schema definition")
    ELSE Ok(WithFields(fields))

\* Extend with the fields of another put in front of those of s.
Extend_anotherFirst(s, another) ==
    IF duplicateName(another.fields \o s.fields, 1, {})
    THEN Panic("dvo: duplicate field name found during Extend")
    ELSE Ok([fields |-> another.fields \o s.fields,
             allowUnknownFields |-> s.allowUnknownFields \/ another.allowUnknownFields])

\* Schema.Extend: the panic or the new Schema.
Extend(s, another) ==
    IF duplicateName(s.fields \o another.fields, 1, {})
    THEN Panic("dvo: duplicate field name found during Extend")
    ELSE Ok([fields |-> s.fields \o another.fields,
             allowUnknownFields |-> s.allowUnknownFields \/ another.allowUnknownFields])

\* Field descriptors for the argument lists: view-only fields, one of them
\* with the empty name, and wrapped persistent fields that share a view
\* name, a table or nothing with each other.
Descriptors ==
    {Field("id", <<>>), Field("nick", <<>>), Field("", <<>>),
     WrapField("t", "c", "id", <<>>), WrapField("t", "d", "name", <<>>),
     WrapField("u", "c", "id", <<>>)}

\* The schemas WithFields returns for short argument lists, permissive or
\* not.
BaseSchemas ==
    LET accepted == {q \in SeqsUpTo(Descriptors, 2) : WithFieldsCall(q).kind = "ok"}
    IN {WithFields(q) : q \in accepted} \cup {AllowUnknownFields(WithFields(q)) : q \in accepted}

\* No Validate call is running.
NoValidate ==
    /\ schema = WithFields(<<>>)
    /\ json = [t |-> "Empty", v |-> ""]
    /\ urlParams = <<>>
    /\ pc = "none"
    /\ idx = 0
    /\ urlPair = EmptyMap
    /\ errs = EmptyMap
    /\ object = EmptyMap
    /\ ret = None
    /\ other = NoCall

validateVars == <<schema, json, urlParams, pc, idx, urlPair, errs, object, ret, other>>

BuildInit ==
    /\ NoValidate
    /\ \E q \in SeqsUpTo(Descriptors, MaxFields) :
            call = [op |-> "WithFields", fields |-> q, ret |-> None, extends |-> 0]

CallWithFields ==
    /\ call.op = "WithFields"
    /\ call.ret = None
    /\ call' = [call EXCEPT !.ret = WithFieldsCall(call.fields)]
    /\ UNCHANGED validateVars

\* The Schema a construction returned, or that Schema made permissive,
\* becomes the receiver of an Extend call.
StartExtend ==
    /\ call.op \in {"WithFields", "Extend"}
    /\ call.ret.kind = "ok"
    /\ call.extends < MaxExtends
    /\ \E another \in BaseSchemas, permissive \in BOOLEAN :
            call' = [op |-> "Extend",
                     s |-> IF permissive THEN AllowUnknownFields(call.ret.val)
                           ELSE call.ret.val,
                     another |-> another, ret |-> None, extends |-> call.extends + 1]
    /\ UNCHANGED validateVars

CallExtend ==
    /\ call.op = "Extend"
    /\ call.ret = None
    /\ call' = [call EXCEPT !.ret = Extend(call.s, call.another)]
    /\ UNCHANGED validateVars

BuildNext ==
    \/ CallWithFields
    \/ StartExtend
    \/ CallExtend

Build == BuildInit /\ [][BuildNext]_vars

-----------------------------------------------------------------------------
(* typedJson for the integer types *)

\* validator.ErrIntegerOverflow
ErrIntegerOverflow == "integer overflow"

\* A uint64 or, in two's complement, an int64 is four 16-bit limbs, the
\* least significant first.
LimbBits == 16
LimbBase == 65536
Limbs == 4
Zero64 == <<0, 0, 0, 0>>

\* The widths of the sized integer types.
Widths == {8, 16, 32, 64}

\* The characters of a number's raw text.
Digits == <<"0", "1", "2", "3", "4", "5", "6", "7", "8", "9">>
IsDigit(c) == \E d \in DOMAIN Digits : Digits[d] = c
DigitOf(c) == (CHOOSE d \in DOMAIN Digits : Digits[d] = c) - 1
Contains(raw, c) == \E i \in DOMAIN raw : raw[i] = c

\* A gjson.Result of type Number with its Raw text.
NumRaw(raw) == [t |-> "Number", r |-> raw]

\* n = n*10 + d in uint64 arithmetic: the carry out of the top limb is lost.
mul10add(n, d) ==
    LET t0 == n[1] * 10 + d
        t1 == n[2] * 10 + t0 \div LimbBase
        t2 == n[3] * 10 + t1 \div LimbBase
        t3 == n[4] * 10 + t2 \div LimbBase
    IN <<t0 % LimbBase, t1 % LimbBase, t2 % LimbBase, t3 % LimbBase>>

\* -n in 64 bits: every bit inverted, plus one.
negate(n) ==
    LET t0 == (LimbBase - 1 - n[1]) + 1
        t1 == (LimbBase - 1 - n[2]) + t0 \div LimbBase
        t2 == (LimbBase - 1 - n[3]) + t1 \div LimbBase
        t3 == (LimbBase - 1 - n[4]) + t2 \div LimbBase
    IN <<t0 % LimbBase, t1 % LimbBase, t2 % LimbBase, t3 % LimbBase>>

\* The sign bit of an int64.
IsNegative(n) == n[4] >= LimbBase \div 2

\* The digit loop of gjson's parseUint and parseInt from character i on:
\* the number read, or Nil at a character that is not a digit.
RECURSIVE parseDigits(_, _, _)
parseDigits(s, i, n) ==
    IF i > Len(s) THEN Ok(n)
    ELSE IF IsDigit(s[i]) THEN parseDigits(s, i + 1, mul10add(n, DigitOf(s[i])))
    ELSE Nil

\* gjson's parseUint
parseUint(s) == IF Len(s) = 0 THEN Nil ELSE parseDigits(s, 1, Zero64)

\* gjson's parseInt
parseInt(s) ==
    IF Len(s) > 0 /\ s[1] = "-"
    THEN IF Len(s) = 1 THEN Nil
         ELSE IF parseDigits(s, 2, Zero64).kind = "nil" THEN Nil
         ELSE Ok(negate(parseDigits(s, 2, Zero64).val))
    ELSE parseUint(s)

\* The text in front of the decimal point.
RECURSIVE IntegerPart(_)
IntegerPart(raw) ==
    IF raw = <<>> \/ raw[1] = "." THEN <<>> ELSE <<raw[1]>> \o IntegerPart(Tail(raw))

\* gjson.Result.Int of a Number: the float64 converted when it is a safe
\* integer, which cuts the fraction off, else the raw text parsed, which
\* wraps around.  Numbers with a fraction are taken below 2^53 here.
ResultInt(res) ==
    IF Contains(res.r, ".") THEN parseInt(IntegerPart(res.r)).val
    ELSE parseInt(res.r).val

\* gjson.Result.Uint of a Number without a minus sign, in the same way.
ResultUint(res) ==
    IF Contains(res.r, ".") THEN parseUint(IntegerPart(res.r)).val
    ELSE parseUint(res.r).val

\* n / 10 and n % 10 of a uint64, by long division from the top limb.
DivMod10(n) ==
    LET c3 == n[4]
        c2 == (c3 % 10) * LimbBase + n[3]
        c1 == (c2 % 10) * LimbBase + n[2]
        c0 == (c1 % 10) * LimbBase + n[1]
    IN [quot |-> <<c0 \div 10, c1 \div 10, c2 \div 10, c3 \div 10>>, rem |-> c0 % 10]

RECURSIVE formatDigits(_)
formatDigits(n) ==
    IF n = Zero64 THEN <<>>
    ELSE formatDigits(DivMod10(n).quot) \o <<Digits[DivMod10(n).rem + 1]>>

\* strconv.FormatUint(n, 10)
FormatUint(n) == IF n = Zero64 THEN <<"0">> ELSE formatDigits(n)

\* strconv.FormatInt(n, 10)
FormatInt(n) == IF IsNegative(n) THEN <<"-">> \o FormatUint(negate(n)) ELSE FormatUint(n)

\* 2^e for a bit position within a limb.
RECURSIVE Pow2(_)
Pow2(e) == IF e = 0 THEN 1 ELSE 2 * Pow2(e - 1)

\* (x << (64 - bitSize)) >> (64 - bitSize): limb i keeps its bits below
\* bitSize, and the bits from bitSize up are all fill.
truncLimb(n, bitSize, fill, i) ==
    LET lo == LimbBits * (i - 1) IN
    IF lo + LimbBits <= bitSize THEN n[i]
    ELSE IF lo >= bitSize THEN (IF fill THEN LimbBase - 1 ELSE 0)
    ELSE (n[i] % Pow2(bitSize - lo))
            + (IF fill THEN LimbBase - Pow2(bitSize - lo) ELSE 0)

\* Bit number bitSize-1 of n.
signBit(n, bitSize) ==
    (n[((bitSize - 1) \div LimbBits) + 1] \div Pow2((bitSize - 1) % LimbBits)) % 2 = 1

\* The arithmetic shifts of reflect.Value.OverflowInt.
truncInt(n, bitSize) ==
    [i \in 1..Limbs |-> truncLimb(n, bitSize, signBit(n, bitSize), i)]

\* The logical shifts of reflect.Value.OverflowUint.
truncUint(n, bitSize) == [i \in 1..Limbs |-> truncLimb(n, bitSize, FALSE, i)]

\* An overflow test that takes every int64 to fit.
OverflowInt_never(n, bitSize) == FALSE

\* reflect.Value.OverflowInt, OverflowUint
OverflowInt(n, bitSize) == n # truncInt(n, bitSize)
OverflowUint(n, bitSize) == n # truncUint(n, bitSize)

\* The integer types: T.kind is "int" or "uint", T.bits the width.
IntType(bits) == [kind |-> "int", bits |-> bits]
UintType(bits) == [kind |-> "uint", bits |-> bits]

\* A value of an integer type.
Integer(T, n) == [type |-> T, n |-> n]

\* overflowError(zero)
overflowError(T) == Errorf(ErrIntegerOverflow, T)

\* The signed coercion without the test for a decimal point: every raw text
\* that is not canonical is an overflow.
typedJsonInt_noFloatTest(T, res) ==
    IF res.t # "Number" THEN Err(Errorf(ErrTypeMismatch, RawType(res)))
    ELSE IF FormatInt(ResultInt(res)) # res.r THEN Err(overflowError(T))
    ELSE IF OverflowInt(ResultInt(res), T.bits) THEN Err(overflowError(T))
    ELSE Ok(Integer(T, truncInt(ResultInt(res), T.bits)))

\* typedJson[T] for a signed integer type T.
typedJsonInt(T, res) ==
    IF res.t # "Number" THEN Err(Errorf(ErrTypeMismatch, RawType(res)))
    ELSE IF FormatInt(ResultInt(res)) # res.r
    THEN IF Contains(res.r, ".")
         THEN Err(Errorf(ErrTypeMismatch, "cannot assign float value to integer type"))
         ELSE Err(overflowError(T))
    ELSE IF OverflowInt(ResultInt(res), T.bits) THEN Err(overflowError(T))
    ELSE Ok(Integer(T, truncInt(ResultInt(res), T.bits)))

\* typedJson[T] for an unsigned integer type T.
typedJsonUint(T, res) ==
    IF res.t # "Number" THEN Err(Errorf(ErrTypeMismatch, RawType(res)))
    ELSE IF Contains(res.r, "-") THEN Err(overflowError(T))
    ELSE IF FormatUint(ResultUint(res)) # res.r
    THEN IF Contains(res.r, ".")
         THEN Err(Errorf(ErrTypeMismatch, "cannot assign float value to unsigned integer type"))
         ELSE Err(overflowError(T))
    ELSE IF OverflowUint(ResultUint(res), T.bits) THEN Err(overflowError(T))
    ELSE Ok(Integer(T, truncUint(ResultUint(res), T.bits)))

\* typedJson[T] for an integer type T.
typedJsonInteger(T, res) ==
    IF T.kind = "int" THEN typedJsonInt(T, res) ELSE typedJsonUint(T, res)

\* Decimal numerals, most significant digit first, for the raw texts: the
\* powers of two at the bounds of the widths, and the neighbours of a numeral.
DecPow2(e) ==
    CASE e = 7 -> <<1, 2, 8>>
      [] e = 8 -> <<2, 5, 6>>
      [] e = 15 -> <<3, 2, 7, 6, 8>>
      [] e = 16 -> <<6, 5, 5, 3, 6>>
      [] e = 31 -> <<2, 1, 4, 7, 4, 8, 3, 6, 4, 8>>
      [] e = 32 -> <<4, 2, 9, 4, 9, 6, 7, 2, 9, 6>>
      [] e = 63 -> <<9, 2, 2, 3, 3, 7, 2, 0, 3, 6, 8, 5, 4, 7, 7, 5, 8, 0, 8>>
      [] e = 64 -> <<1, 8, 4, 4, 6, 7, 4, 4, 0, 7, 3, 7, 0, 9, 5, 5, 1, 6, 1, 6>>

RECURSIVE DecPred(_)
DecPred(d) ==
    IF d[Len(d)] > 0 THEN SubSeq(d, 1, Len(d) - 1) \o <<d[Len(d)] - 1>>
    ELSE DecPred(SubSeq(d, 1, Len(d) - 1)) \o <<9>>

RECURSIVE DecSucc(_)
DecSucc(d) ==
    IF d = <<>> THEN <<1>>
    ELSE IF d[Len(d)] < 9 THEN SubSeq(d, 1, Len(d) - 1) \o <<d[Len(d)] + 1>>
    ELSE DecSucc(SubSeq(d, 1, Len(d) - 1)) \o <<0>>

\* The raw text of a numeral, with a minus sign or without.
Literal(neg, d) ==
    (IF neg THEN <<"-">> ELSE <<>>) \o [i \in DOMAIN d |-> Digits[d[i] + 1]]

\* The numbers of TestTyped: around the bounds of every width, zero, minus
\* one, two small ones, and numbers with a fraction.
RawTexts ==
    UNION {{Literal(FALSE, DecPred(DecPow2(w - 1))), Literal(FALSE, DecPow2(w - 1)),
            Literal(TRUE, DecPow2(w - 1)), Literal(TRUE, DecSucc(DecPow2(w - 1))),
            Literal(FALSE, DecPred(DecPow2(w))), Literal(FALSE, DecPow2(w))} : w \in Widths}
    \cup {<<"0">>, <<"-", "1">>, <<"1", "2", "3">>, <<"-", "1", "2", "3">>,
          <<"1", "2", "3", ".", "4", "5">>, <<"-", "0", ".", "5">>}

IntegerTypes == {IntType(w) : w \in Widths} \cup {UintType(w) : w \in Widths}

CoerceInit ==
    /\ NoValidate
    /\ \E T \in IntegerTypes, res \in {NumRaw(raw) : raw \in RawTexts} \cup {Str(<<"x">>)} :
            call = [op |-> "typedJson", T |-> T, res |-> res, ret |-> None]

CallTypedJson ==
    /\ call.op = "typedJson"
    /\ call.ret = None
    /\ call' = [call EXCEPT !.ret = typedJsonInteger(call.T, call.res)]
    /\ UNCHANGED validateVars

CoerceNext == CallTypedJson

Coerce == CoerceInit /\ [][CoerceNext]_vars

-----------------------------------------------------------------------------
(* Queries against a Result Object: internal.Get[T] *)

\* Longest path of a query, in segments.
MaxPathLen == 3

\* The dynamic type of a stored value.
TypeOf(val) == val.t

\* val.(T) under lo.Assertf: every value is an any.
assertType(T, val) ==
    IF T = "any" \/ TypeOf(val) = T THEN Some(val)
    ELSE Panic("xql: field has wrong type")

\* The typed read of the Mst getters, which has no empty result.
GetT_mustGet(T, data, parts) ==
    IF Get(data, parts).kind = "some" THEN assertType(T, Get(data, parts).val)
    ELSE Panic("no such element")

\* A typed read that takes every value for a T.
GetT_unasserted(T, data, parts) == Get(data, parts)

\* internal.Get[T](data, name), name given by its segments.
GetT(T, data, parts) ==
    IF JoinPath(parts) \in DOMAIN data THEN assertType(T, data[JoinPath(parts)])
    ELSE IF Walk([t |-> "Data", m |-> data], parts).kind = "some"
    THEN assertType(T, Walk([t |-> "Data", m |-> data], parts).val)
    ELSE Walk([t |-> "Data", m |-> data], parts)

\* A document every field of SchemaOf(kind, ...) accepts, with two elements
\* in its arrays.
QueryDoc(kind) ==
    Doc(Str("ab"), Name(SecondField(kind)),
        CASE kind = "Array" -> Arr(<<Str("ab"), Str("cd")>>)
          [] kind = "ArrayOfObject" ->
                Arr(<<Obj([name |-> Str("ab")]), Obj([name |-> Str("ab"), email |-> Str("cd")])>>)
          [] OTHER -> GoodValue(kind),
        Missing)

\* The Result Objects Validate builds from these documents.
QueryObjects == {Validate(SchemaOf(k, TRUE, FALSE), QueryDoc(k), <<>>).val.m : k \in Kinds}

\* Path segments: keys of the objects, keys they do not have, indexes
\* within and beyond the arrays, and segments that are no index.
Segments == {"id", "tags", "user", "items", "name", "0", "1", "2", "-1", "x"}

Paths == SeqsUpTo(Segments, MaxPathLen) \ {<<>>}

\* The type parameters of Get, String, Int and StringArray.
GetTypes == {"any", "string", "int", "[]string"}

QueryInit ==
    /\ NoValidate
    /\ \E T \in GetTypes, data \in QueryObjects, parts \in Paths :
            call = [op |-> "Get", T |-> T, data |-> data, parts |-> parts, ret |-> None]

\* None is also what Get returns, so the returned option is boxed.
CallGet ==
    /\ call.op = "Get"
    /\ call.ret = None
    /\ call' = [call EXCEPT !.ret = [returned |-> GetT(call.T, call.data, call.parts)]]
    /\ UNCHANGED validateVars

QueryNext == CallGet

Query == QueryInit /\ [][QueryNext]_vars

-----------------------------------------------------------------------------
(* Validate on schemas with wrapped persistent fields *)

\* Descriptors of scalar fields: view-only ones and wrapped columns of a
\* table t, one view-only field being named like the table.
QualifiedDescriptors ==
    {Field("t", <<>>), Field("id", <<MinLength(2)>>),
     WrapField("t", "c", "email", <<>>), WrapField("t", "c", "name", <<>>)}

\* The schemas WithFields returns for one or two of them, permissive or
\* not.
QualifiedSchemas ==
    LET accepted == {q \in SeqsUpTo(QualifiedDescriptors, 2) :
                        q # <<>> /\ WithFieldsCall(q).kind = "ok"}
    IN {WithFieldsCall(q).val : q \in accepted}
        \cup {AllowUnknownFields(WithFieldsCall(q).val) : q \in accepted}

\* Documents with a string or nothing under the leaf name of every field.
QualifiedDocs(s) ==
    {Obj(m) : m \in PartialMaps({Name(s.fields[k]) : k \in DOMAIN s.fields},
                                {Str("ab"), Str("cd")})}

\* Overlay maps: a pair for the first field, and a pair whose key is the
\* qualified name of a wrapped field.
QualifiedOverlays(s) == {(Name(s.fields[1]) :> "zz"), ("t.c.email" :> "zz")}

QualifiedInit ==
    /\ schema \in QualifiedSchemas
    /\ json \in QualifiedDocs(schema)
    /\ urlParams \in SeqsUpTo(QualifiedOverlays(schema), 1)
    /\ pc = "start"
    /\ idx = 0
    /\ urlPair = EmptyMap
    /\ errs = EmptyMap
    /\ object = EmptyMap
    /\ ret = None
    /\ other = NoCall
    /\ call = NoOp

Qualified == QualifiedInit /\ [][Next]_vars

-----------------------------------------------------------------------------
(* valueObject.FlatMap *)

\* The keys of the objects of the model as sort.Strings orders them.
KeyOrder ==
    <<"", "c", "email", "extra", "id", "items", "name", "nick", "owner", "t",
      "t.c.email", "tags", "user">>

\* The members of S in the order they have in q.
InOrder(q, S) == SelectSeq(q, LAMBDA k : k \in S)

\* Data.Fields: the keys, sorted.
Fields(m) == InOrder(KeyOrder, DOMAIN m)

\* The keys of the internal.Data maps within a value, over which walk
\* ranges in an order Go leaves open.
RECURSIVE DataKeys(_)
DataKeys(val) ==
    IF val.t \in {"Data", "valueObject"}
    THEN (IF val.t = "Data" THEN DOMAIN val.m ELSE {})
            \cup UNION {DataKeys(val.m[k]) : k \in DOMAIN val.m}
    ELSE {}

\* nk: the key under the accumulated prefix.
prefixed(prefix, k) == IF prefix # "" THEN prefix \o "." \o k ELSE k

\* The default case of walk without its test of the prefix.
walkLeaf_anyPrefix(out, prefix, val) == Put(out, prefix, val)

\* The default case of walk: arrays and primitives are stored as they are
\* under the accumulated prefix, unless it is empty.
walkLeaf(out, prefix, val) == IF prefix # "" THEN Put(out, prefix, val) ELSE out

\* The recursive walker of FlatMap, writing into out; a Data is ranged
\* over in the order the keys have in order, a valueObject over its Fields.
RECURSIVE walk(_, _, _, _), walkKeys(_, _, _, _, _)
walk(out, prefix, val, order) ==
    IF val.t = "Data" THEN walkKeys(out, prefix, val.m, InOrder(order, DOMAIN val.m), order)
    ELSE IF val.t = "valueObject" THEN walkKeys(out, prefix, val.m, Fields(val.m), order)
    ELSE walkLeaf(out, prefix, val)

walkKeys(out, prefix, m, keys, order) ==
    IF keys = <<>> THEN out
    ELSE walkKeys(walk(out, prefixed(prefix, Head(keys)), m[Head(keys)], order),
                  prefix, m, Tail(keys), order)

\* Validate called on the schemas with wrapped fields, and on permissive
\* view-only schemas with no overlay, with an unknown overlay key and with
\* the empty overlay key.
FlattenCalls ==
    {Validate(s, j, p) : <<s, j, p>> \in
        UNION {{s} \X QualifiedDocs(s) \X SeqsUpTo(QualifiedOverlays(s), 1) :
                s \in QualifiedSchemas}}
    \cup {Validate(SchemaOf(k, TRUE, TRUE), QueryDoc(k), p) :
            k \in Kinds, p \in {<<>>, <<("extra" :> "x")>>, <<("" :> "x")>>}}

\* The Result Objects these calls returned.
FlattenObjects == {r.val : r \in {x \in FlattenCalls : x.kind = "ok"}}

FlattenInit ==
    /\ NoValidate
    /\ \E vo \in FlattenObjects :
            call = [op |-> "FlatMap", vo |-> vo, keys |-> Fields(vo.m), out |-> EmptyMap,
                    ret |-> None]

\* One round of the loop over vo.Fields().
FlatMapField ==
    /\ call.op = "FlatMap"
    /\ call.keys # <<>>
    /\ \E order \in Orders(DataKeys(call.vo.m[Head(call.keys)])) :
            call' = [call EXCEPT
                        !.out = walk(@, Head(call.keys), call.vo.m[Head(call.keys)], order),
                        !.keys = Tail(@)]
    /\ UNCHANGED validateVars

FlatMapReturn ==
    /\ call.op = "FlatMap"
    /\ call.keys = <<>>
    /\ call.ret = None
    /\ call' = [call EXCEPT !.ret = Some(call.out)]
    /\ UNCHANGED validateVars

FlattenNext ==
    \/ FlatMapField
    \/ FlatMapReturn

Flatten == FlattenInit /\ [][FlattenNext]_vars

-----------------------------------------------------------------------------
(* validationError as an object: add, err and Error *)

\* Largest number of add calls on one aggregator.
MaxAdds == 3

\* The bytes of the field paths, in the order of their codes.
ByteOrder == <<".", "0", "1", "[", "]", "a", "d", "i">>
Byte(c) == CHOOSE i \in DOMAIN ByteOrder : ByteOrder[i] = c

\* a < b for Go strings, given as their bytes.
RECURSIVE StringLess(_, _)
StringLess(a, b) ==
    IF b = <<>> THEN FALSE
    ELSE IF a = <<>> THEN TRUE
    ELSE IF Head(a) # Head(b) THEN Byte(Head(a)) < Byte(Head(b))
    ELSE StringLess(Tail(a), Tail(b))

\* sort.Strings(keys): k put in its place in the sorted q, and the keys
\* of S put in one by one.
RECURSIVE insertSorted(_, _)
insertSorted(q, k) ==
    IF q = <<>> THEN <<k>>
    ELSE IF StringLess(k, Head(q)) THEN <<k>> \o q
    ELSE <<Head(q)>> \o insertSorted(Tail(q), k)

RECURSIVE sortStrings(_)
sortStrings(S) ==
    IF S = {} THEN <<>>
    ELSE insertSorted(sortStrings(S \ {CHOOSE k \in S : TRUE}), CHOOSE k \in S : TRUE)

\* A *validationError: the nil pointer, or a pointer to the errors map.
NilValidationError == [isNil |-> TRUE, errors |-> EmptyMap]
NewValidationError == [isNil |-> FALSE, errors |-> EmptyMap]

\* The string Error() builds: the header and one "- key: error" per key.
EmptyText == [header |-> "", lines |-> <<>>]

\* validationError.Error
Error(e) ==
    IF e.isNil \/ DOMAIN e.errors = {} THEN EmptyText
    ELSE [header |-> "validation failed with the following errors:",
          lines |-> [i \in 1 .. Cardinality(DOMAIN e.errors) |->
                        [key |-> sortStrings(DOMAIN e.errors)[i],
                         error |-> e.errors[sortStrings(DOMAIN e.errors)[i]]]]]

\* add that keeps the error a field name already has.
addTo_keepFirst(e, fieldName, er) ==
    IF er.kind # "nil" /\ fieldName \notin DOMAIN e.errors
    THEN [e EXCEPT !.errors = Put(@, fieldName, er)] ELSE e

\* validationError.add on a pointer that is not nil.
addTo(e, fieldName, er) == [e EXCEPT !.errors = add(@, fieldName, er)]

\* validationError.err on a pointer.
errOf(e) == IF e.isNil THEN Nil ELSE err(e.errors)

\* The field paths and the errors of the add calls.
AddPaths == {<<"i", "d">>, <<"a">>, <<"a", "[", "0", "]">>, <<"a", "[", "1", "]">>, <<"a", ".", "i", "d">>}
AddErrors == {Nil, Errorf(ErrRequired, ""), Errorf(ErrTypeMismatch, "")}

AggregatorInit ==
    /\ NoValidate
    /\ \E e \in {NilValidationError, NewValidationError} :
            call = [op |-> "validationError", e |-> e, adds |-> 0, added |-> <<>>]

\* One call of add; Validate calls it on &validationError{} only.
CallAdd ==
    /\ call.op = "validationError"
    /\ ~call.e.isNil
    /\ call.adds < MaxAdds
    /\ \E fieldName \in AddPaths, er \in AddErrors :
            call' = [call EXCEPT !.e = addTo(@, fieldName, er),
                                 !.adds = @ + 1,
                                 !.added = <<fieldName, er>>]
    /\ UNCHANGED validateVars

AggregatorNext == CallAdd

Aggregator == AggregatorInit /\ [][AggregatorNext]_vars

-----------------------------------------------------------------------------
(* Data.Add and Data.Update *)

\* Largest number of Add and Update calls on one object.
MaxCalls == 2

\* Add without its test for an existing property.
DataAdd_overwrite(data, parts, val) ==
    IF Len(parts) > 1 THEN [panic |-> TRUE, data |-> data]
    ELSE [panic |-> FALSE, data |-> Put(data, JoinPath(parts), val)]

\* Data.Add(name, value), name given by its dot-separated segments: the
\* map afterwards, and whether the call panicked.
DataAdd(data, parts, val) ==
    IF JoinPath(parts) \in DOMAIN data THEN [panic |-> TRUE, data |-> data]
    ELSE IF Len(parts) > 1 THEN [panic |-> TRUE, data |-> data]
    ELSE [panic |-> FALSE, data |-> Put(data, JoinPath(parts), val)]

\* Update without its test for a missing property.
DataUpdate_create(data, parts, val) ==
    [panic |-> FALSE, data |-> Put(data, JoinPath(parts), val)]

\* Data.Update(name, value)
DataUpdate(data, parts, val) ==
    IF JoinPath(parts) \notin DOMAIN data THEN [panic |-> TRUE, data |-> data]
    ELSE [panic |-> FALSE, data |-> Put(data, JoinPath(parts), val)]

\* The objects of the calls: the empty one, those of the queries, and one
\* with a dotted key copied from an overlay.
MutatedObjects ==
    {EmptyMap} \cup QueryObjects
    \cup {Validate(AllowUnknownFields(WithFields(<<Field("id", <<>>)>>)),
                   Obj([id |-> Str("ab")]), <<("t.c.email" :> "zz")>>).val.m}

\* The names and the values of the calls.
PropertyNames == {<<"id">>, <<"name">>, <<"age">>, <<"a", "d">>, <<"t", "c", "email">>}
PropertyValues == {[t |-> "string", v |-> "gopher"], [t |-> "string", v |-> "gopher-updated"]}

MutateInit ==
    /\ NoValidate
    /\ \E data \in MutatedObjects :
            call = [op |-> "Data", data |-> data, calls |-> 0, last |-> <<>>]

CallDataAdd ==
    /\ call.op = "Data"
    /\ call.calls < MaxCalls
    /\ \E parts \in PropertyNames, val \in PropertyValues :
            call' = [call EXCEPT
                        !.data = DataAdd(@, parts, val).data,
                        !.calls = @ + 1,
                        !.last = [fn |-> "Add", parts |-> parts, val |-> val,
                                  panic |-> DataAdd(call.data, parts, val).panic]]
    /\ UNCHANGED validateVars

CallDataUpdate ==
    /\ call.op = "Data"
    /\ call.calls < MaxCalls
    /\ \E parts \in PropertyNames, val \in PropertyValues :
            call' = [call EXCEPT
                        !.data = DataUpdate(@, parts, val).data,
                        !.calls = @ + 1,
                        !.last = [fn |-> "Update", parts |-> parts, val |-> val,
                                  panic |-> DataUpdate(call.data, parts, val).panic]]
    /\ UNCHANGED validateVars

MutateNext ==
    \/ CallDataAdd
    \/ CallDataUpdate

Mutate == MutateInit /\ [][MutateNext]_vars

-----------------------------------------------------------------------------
(* validator.Decimal *)

\* Longest text given to the Decimal validator, the texts of the tests
\* apart.
MaxTextLen == 4

\* validator.ErrDecimalPrecision
ErrDecimalPrecision == "decimal precision"

\* strings.TrimSpace, for texts whose only white space is the blank.
RECURSIVE TrimLeft(_)
TrimLeft(s) == IF s # <<>> /\ Head(s) = " " THEN TrimLeft(Tail(s)) ELSE s
RECURSIVE TrimRight(_)
TrimRight(s) ==
    IF s # <<>> /\ s[Len(s)] = " " THEN TrimRight(SubSeq(s, 1, Len(s) - 1)) ELSE s
TrimSpace(s) == TrimRight(TrimLeft(s))

\* The text after the optional sign.
Unsigned(s) == IF s[1] \in {"+", "-"} THEN Tail(s) ELSE s

\* strings.Index(s, "."), counted from 1; 0 when there is no point.
IndexOfPoint(s) ==
    IF Contains(s, ".") THEN CHOOSE i \in DOMAIN s : s[i] = "." /\ \A j \in 1 .. i - 1 : s[j] # "."
    ELSE 0

\* strings.SplitN(s, ".", 3)
SplitN3(s) ==
    IF IndexOfPoint(s) = 0 THEN <<s>>
    ELSE IF IndexOfPoint(SubSeq(s, IndexOfPoint(s) + 1, Len(s))) = 0
    THEN <<SubSeq(s, 1, IndexOfPoint(s) - 1), SubSeq(s, IndexOfPoint(s) + 1, Len(s))>>
    ELSE <<SubSeq(s, 1, IndexOfPoint(s) - 1),
           SubSeq(s, IndexOfPoint(s) + 1,
                  IndexOfPoint(s) + IndexOfPoint(SubSeq(s, IndexOfPoint(s) + 1, Len(s))) - 1),
           SubSeq(s, IndexOfPoint(s) + IndexOfPoint(SubSeq(s, IndexOfPoint(s) + 1, Len(s))) + 1,
                  Len(s))>>

\* allDigits
allDigits(s) == \A i \in DOMAIN s : IsDigit(s[i])

\* intPart and fracPart of the split text.
intPart(parts) == IF parts[1] = <<>> THEN <<"0">> ELSE parts[1]
fracPart(parts) == IF Len(parts) = 2 THEN parts[2] ELSE <<>>

\* The tests on the digits once the text is split.
decimalDigits(parts, precision, scale) ==
    IF ~allDigits(intPart(parts)) \/ ~allDigits(fracPart(parts))
    THEN Errorf(ErrDecimalPrecision, "contains non-digit characters")
    ELSE IF Len(intPart(parts)) + Len(fracPart(parts)) > precision
            \/ Len(fracPart(parts)) > scale
    THEN Errorf(ErrDecimalPrecision, "precision, scale")
    ELSE Nil

\* The tests on the text after the sign.
decimalUnsigned(s, precision, scale) ==
    IF Contains(s, "e") \/ Contains(s, "E")
    THEN Errorf(ErrDecimalPrecision, "unsupported format")
    ELSE IF Len(SplitN3(s)) > 2 THEN Errorf(ErrDecimalPrecision, "invalid format")
    ELSE decimalDigits(SplitN3(s), precision, scale)

\* The validator Decimal(precision, scale) applied to s: Nil, or the error.
Decimal(precision, scale, s) ==
    IF TrimSpace(s) = <<>> THEN Nil
    ELSE decimalUnsigned(Unsigned(TrimSpace(s)), precision, scale)

\* The bytes of the texts, and the texts: every short one, and those of
\* the tests.
DecimalBytes == {"0", "1", "-", "+", ".", "e", "a", " "}
DecimalTests ==
    {<<"1", "2", "3", "4", "5", "6", "7", "8", "9", "0", ".", "1", "2">>,
     <<"-", "1", "2", "3", "4", "5", "6", "7", "8", "9", "0", ".", "1", "2">>,
     <<"1", "2", "3", "4", ".", "5", "6", "7">>,
     <<"1", "2", "3", "4", "5", "6", ".", "7", "8">>,
     <<"1", "2", "a", ".", "3", "4">>}
DecimalTexts == (SeqsUpTo(DecimalBytes, MaxTextLen) \ {<<>>}) \cup DecimalTests

\* (precision, scale) of the tests, and a pair with no integer digit.
DecimalTypes == {<<12, 2>>, <<5, 2>>, <<2, 2>>}

DecimalInit ==
    /\ NoValidate
    /\ \E T \in DecimalTypes, s \in DecimalTexts :
            call = [op |-> "Decimal", precision |-> T[1], scale |-> T[2], s |-> s,
                    ret |-> None]

CallDecimal ==
    /\ call.op = "Decimal"
    /\ call.ret = None
    /\ call' = [call EXCEPT !.ret = Decimal(call.precision, call.scale, call.s)]
    /\ UNCHANGED validateVars

DecimalNext == CallDecimal

Decimals == DecimalInit /\ [][DecimalNext]_vars

-----------------------------------------------------------------------------
(* The public constructors of field descriptors *)

\* ObjectField and ArrayOfObjectField called with a Schema pointer that may
\* be nil (nested is a sequence of length 0 or 1): lo.Assertf panics on nil.
NewObjectField(name, nested) ==
    IF nested = <<>> THEN Panic("Nested Schema is null for ObjectField")
    ELSE Ok(trait(name, FALSE, TRUE, nested, <<>>))

NewArrayOfObjectField(name, nested) ==
    IF nested = <<>> THEN Panic("Nested Schema is null for ArrayOfObjectField")
    ELSE Ok(trait(name, TRUE, TRUE, nested, <<>>))

\* WrapFieldAsObject, WrapFieldAsArray
WrapFieldAsObject(table, column, view, vfs) ==
    [WrapField(table, column, view, vfs) EXCEPT !.object = TRUE]

WrapFieldAsArray(table, column, view, vfs) ==
    [WrapField(table, column, view, vfs) EXCEPT !.array = TRUE]

\* The public constructors, called for a field of leaf name owner.
Constructors ==
    {"Field", "ArrayField", "ObjectField", "ArrayOfObjectField",
     "WrapField", "WrapFieldAsObject", "WrapFieldAsArray"}

Construct(ctor, nested) ==
    CASE ctor = "Field" -> Ok(Field("owner", <<MinLength(2)>>))
      [] ctor = "ArrayField" -> Ok(ArrayField("owner", <<MinLength(2)>>))
      [] ctor = "ObjectField" -> NewObjectField("owner", nested)
      [] ctor = "ArrayOfObjectField" -> NewArrayOfObjectField("owner", nested)
      [] ctor = "WrapField" -> Ok(WrapField("t", "c", "owner", <<MinLength(2)>>))
      [] ctor = "WrapFieldAsObject" -> Ok(WrapFieldAsObject("t", "c", "owner", <<MinLength(2)>>))
      [] ctor = "WrapFieldAsArray" -> Ok(WrapFieldAsArray("t", "c", "owner", <<MinLength(2)>>))

\* An embedded schema whose only field is optional.
optionalSchema == WithFields(<<Optional(Field("id", <<MinLength(2)>>))>>)

\* The Schema pointers given to the constructors that take one.
NestedArguments(ctor) ==
    IF ctor \in {"ObjectField", "ArrayOfObjectField"}
    THEN {<<>>, <<ownerSchema>>, <<userSchema>>, <<optionalSchema>>,
          <<AllowUnknownFields(optionalSchema)>>, <<AllowUnknownFields(ownerSchema)>>}
    ELSE {<<>>}

\* Documents for a schema of the one field owner: every kind of value under
\* owner, with or without an undeclared member.
ConstructDocs ==
    {Doc(Missing, "owner", fv, ev) :
        fv \in {Missing, Str("ab"), Num("7"), [t |-> "True", v |-> "true"], Null,
                Obj([id |-> Str("ab")]), Obj([id |-> Str("a")]),
                Obj([name |-> Str("ab")]), Arr(<<Str("ab")>>),
                Arr(<<Obj([id |-> Str("ab")])>>)},
        ev \in {Missing, Str("x")}}

ConstructOverlays == {("owner" :> "ab"), ("extra" :> "x")}

ConstructInit ==
    /\ NoValidate
    /\ \E ctor \in Constructors :
        \E nested \in NestedArguments(ctor) :
            call = [op |-> "construct", ctor |-> ctor, nested |-> nested, ret |-> None]

CallConstruct ==
    /\ call.op = "construct"
    /\ call.ret = None
    /\ call' = [call EXCEPT !.ret = Construct(call.ctor, call.nested)]
    /\ UNCHANGED validateVars

\* A schema of the constructed descriptor, required or optional, permissive
\* or not, validates a document.
StartValidate ==
    /\ call.op = "construct"
    /\ call.ret.kind = "ok"
    /\ pc = "none"
    /\ \E optional \in BOOLEAN, permissive \in BOOLEAN :
        LET f == IF optional THEN Optional(call.ret.val) ELSE call.ret.val
        IN schema' = IF permissive THEN AllowUnknownFields(WithFields(<<f>>))
                     ELSE WithFields(<<f>>)
    /\ json' \in ConstructDocs
    /\ urlParams' \in SeqsUpTo(ConstructOverlays, 1)
    /\ pc' = "start"
    /\ UNCHANGED <<call, other, idx, urlPair, errs, object, ret>>

ConstructNext ==
    \/ CallConstruct
    \/ StartValidate
    \/ Next

Constructed == ConstructInit /\ [][ConstructNext]_vars

-----------------------------------------------------------------------------
(* Vocabulary of the properties, in terms of the inputs of the call *)

OverlayKeys == UNION {DOMAIN urlParams[i] : i \in DOMAIN urlParams}
TopLevelKeys == IF json.t = "Object" THEN DOMAIN json.m ELSE {}
WellFormed == json.t # "Invalid"

FieldNamed(k) == CHOOSE i \in DOMAIN schema.fields : Name(schema.fields[i]) = k
Declared(k) == \E i \in DOMAIN schema.fields : Name(schema.fields[i]) = k
DeclaredNested(k) ==
    \E i \in DOMAIN schema.fields :
        /\ Name(schema.fields[i]) = k
        /\ schema.fields[i].array \/ schema.fields[i].object

\* The field has no member in the JSON document and no pair in any overlay.
Absent(f) == Name(f) \notin TopLevelKeys /\ Name(f) \notin OverlayKeys

DuplicatedAcrossOverlays(k) ==
    \E i, j \in DOMAIN urlParams :
        i < j /\ k \in DOMAIN urlParams[i] /\ k \in DOMAIN urlParams[j]
InJsonAndOverlay(k) == k \in TopLevelKeys /\ k \in OverlayKeys

\* The input has none of the structural problems: the text is empty or
\* well-formed with an object root, no key is duplicated across overlays or
\* shared by the document and an overlay and, unless the schema is
\* permissive, every key is declared and no overlay key names an array or
\* object field.
StructurallyClean ==
    /\ json.t \in {"Empty", "Object"} \/ (schema.allowUnknownFields /\ WellFormed)
    /\ \A k \in TopLevelKeys \cup OverlayKeys :
        /\ ~DuplicatedAcrossOverlays(k)
        /\ ~InJsonAndOverlay(k)
        /\ ~schema.allowUnknownFields => Declared(k)
        /\ ~schema.allowUnknownFields /\ k \in OverlayKeys => ~DeclaredNested(k)

Done == pc = "done"
Failed == ret.kind = "err"
Succeeded == ret.kind = "ok"
Aggregated == ret.kind = "err" /\ ret.err.kind = "agg"

\* The returned aggregate has an entry under key k.
HasEntry(k) == Aggregated /\ k \in DOMAIN ret.err.errors
\* ... and the message that entry ends with is msg.
EntrySays(k, msg) ==
    /\ HasEntry(k)
    /\ Cause(ret.err.errors[k]).kind = "leaf"
    /\ Cause(ret.err.errors[k]).msg = msg

\* The stepwise call returns what the one-call definition returns.
StepsAgree == Done => ret = Validate(schema, json, urlParams)

\* The field phase runs exactly on the structurally clean inputs.
CleanIffFieldPhase ==
    pc = "failfirst" => ((DOMAIN errs = {}) <=> StructurallyClean)

-----------------------------------------------------------------------------
(* C1 *)

OverwrittenLater(i) ==
    \E k \in DOMAIN schema.fields :
        /\ k > i
        /\ Exists(Get_json(json, Name(schema.fields[k])))
        /\ LET rs == validate(schema.fields[k], Get_json(json, Name(schema.fields[k])))
           IN /\ rs.kind = "err"
              /\ AsValidationError(rs.err).kind = "agg"
              /\ Name(schema.fields[i]) \in DOMAIN AsValidationError(rs.err).errors

-----------------------------------------------------------------------------
(* C2 *)

\* C2: with a schema that is not permissive, Validate fails whenever a
\* top-level JSON key or an overlay key names no declared field, and the
\* aggregated error has an entry under that key that reports it as unknown
\* ("unknown json field" for a JSON key, "unknown url parameter" for an
\* overlay key).
C2_UnknownKeysReported ==
    Done /\ ~schema.allowUnknownFields =>
        \A k \in TopLevelKeys \cup OverlayKeys :
            ~Declared(k) =>
                /\ Failed
                /\ \/ k \in TopLevelKeys /\ EntrySays(k, "unknown json field")
                   \/ k \in OverlayKeys /\ EntrySays(k, "unknown url parameter")

-----------------------------------------------------------------------------
(* C3 *)

\* The Go value a JSON string member would be stored as.
StoredString(node) == [t |-> "string", v |-> node.v]

\* C3: in permissive mode a successful Validate makes the value of every
\* undeclared top-level JSON key retrievable by Get under that key
\* (Schema{id} permissive with {"id":"1","extra":"x"} gives Get("extra") = "x").
C3_UnknownJsonKeyRetrievable ==
    Done /\ schema.allowUnknownFields /\ Succeeded =>
        \A k \in TopLevelKeys :
            ~Declared(k) /\ json.m[k].t = "String"
                => Get(ret.val.m, <<k>>) = Some(StoredString(json.m[k]))

-----------------------------------------------------------------------------
(* C4 *)

\* The element fails coercion to string or some validator of f rejects it.
ElementFails(f, element) ==
    \/ element.t # "String"
    \/ \E k \in DOMAIN f.validators :
          RunValidator(f.validators[k], element.v).kind # "nil"

\* Field number i is an array-of-scalar field and the document has an array
\* under its name.
ScalarArrayCase(i) ==
    /\ schema.fields[i].array
    /\ Len(schema.fields[i].embedded) = 0
    /\ Name(schema.fields[i]) \in TopLevelKeys
    /\ json.m[Name(schema.fields[i])].t = "Array"

FailingIndexes(i) ==
    LET node == json.m[Name(schema.fields[i])]
    IN {n \in 0 .. Len(node.a) - 1 : ElementFails(schema.fields[i], node.a[n + 1])}

\* C4 as stated: for an array-of-scalar field the aggregated error Validate
\* returns has an entry name[i] exactly for the indexes i whose element
\* fails coercion or a validator.
C4_Original ==
    Done =>
        \A i \in DOMAIN schema.fields :
            ScalarArrayCase(i) =>
                \A n \in 0 .. Len(json.m[Name(schema.fields[i])].a) - 1 :
                    HasEntry(IndexKey(Name(schema.fields[i]), n))
                        <=> n \in FailingIndexes(i)

\* The failure of another field of the schema is merged under key k.
MergedFromOtherField(i, k) ==
    \E x \in DOMAIN schema.fields :
        /\ x # i
        /\ Exists(Get_json(json, Name(schema.fields[x])))
        /\ LET rs == validate(schema.fields[x], Get_json(json, Name(schema.fields[x])))
           IN /\ rs.kind = "err"
              /\ AsValidationError(rs.err).kind = "agg"
              /\ k \in DOMAIN AsValidationError(rs.err).errors

\* C4, amended: when the input is structurally clean, so that the field
\* phase runs, the validation of an array-of-scalar field over a JSON array
\* yields one entry name[i] for each index i whose element fails coercion or
\* a validator and none for any other index, and the aggregated error
\* Validate returns has an entry name[i] for every failing index and for no
\* passing index (unless another field's failure was merged under that key).
C4_EveryElementReported ==
    Done /\ StructurallyClean =>
        \A i \in DOMAIN schema.fields :
            ScalarArrayCase(i) =>
                LET f == schema.fields[i]
                    node == json.m[Name(f)]
                    rs == validate(f, node)
                    keys == {IndexKey(Name(f), n) : n \in FailingIndexes(i)}
                IN /\ (rs.kind = "err") <=> (FailingIndexes(i) # {})
                   /\ rs.kind = "err" =>
                        rs.err.kind = "agg" /\ DOMAIN rs.err.errors = keys
                   /\ \A n \in 0 .. Len(node.a) - 1 :
                        /\ n \in FailingIndexes(i) => HasEntry(IndexKey(Name(f), n))
                        /\ n \notin FailingIndexes(i)
                           /\ ~MergedFromOtherField(i, IndexKey(Name(f), n))
                                => ~HasEntry(IndexKey(Name(f), n))

\* A clean call over a 3-element array that is invalid at indexes 0 and 2:
\* the returned aggregate has the entries name[0] and name[2] and not
\* name[1].
C4_Witness ==
    /\ Done
    /\ StructurallyClean
    /\ \E i \in DOMAIN schema.fields :
        /\ ScalarArrayCase(i)
        /\ Len(json.m[Name(schema.fields[i])].a) = 3
        /\ FailingIndexes(i) = {0, 2}
        /\ HasEntry(IndexKey(Name(schema.fields[i]), 0))
        /\ HasEntry(IndexKey(Name(schema.fields[i]), 2))
        /\ ~HasEntry(IndexKey(Name(schema.fields[i]), 1))

-----------------------------------------------------------------------------
(* C5 *)

\* Field number i is an embedded-object field, the document has a member
\* under its name, and the nested call on that member fails with an
\* aggregate of exactly one entry.
NestedCall(i) ==
    Validate(embeddedObject(schema.fields[i])[1], json.m[Name(schema.fields[i])], <<>>)

SingleNestedFailure(i) ==
    /\ schema.fields[i].object
    /\ ~schema.fields[i].array
    /\ Name(schema.fields[i]) \in TopLevelKeys
    /\ NestedCall(i).kind = "err"
    /\ NestedCall(i).err.kind = "agg"
    /\ Cardinality(DOMAIN NestedCall(i).err.errors) = 1

NestedKey(i) == CHOOSE k \in DOMAIN NestedCall(i).err.errors : TRUE

\* C5: when the nested validation of an embedded-object field fails with a
\* single error, the aggregated error Validate returns holds that very error
\* once, under the nested key: the entry is not an aggregate, no entry under
\* the field's own name wraps the nested aggregate, and every other entry
\* belongs to another field of the schema.
C5_SingleNestedErrorUnwrapped ==
    Done /\ StructurallyClean =>
        \A i \in DOMAIN schema.fields :
            SingleNestedFailure(i) =>
                LET k == NestedKey(i) IN
                /\ HasEntry(k)
                /\ ret.err.errors[k] = NestedCall(i).err.errors[k]
                /\ AsValidationError(ret.err.errors[k]).kind = "nil"
                /\ Name(schema.fields[i]) # k => ~HasEntry(Name(schema.fields[i]))
                /\ \A x \in DOMAIN ret.err.errors :
                        x # k => \E o \in DOMAIN schema.fields :
                                    o # i /\ x = Name(schema.fields[o])

C5_Witness ==
    /\ Done
    /\ StructurallyClean
    /\ \E i \in DOMAIN schema.fields :
        /\ SingleNestedFailure(i)
        /\ NestedKey(i) # Name(schema.fields[i])
        /\ EntrySays(NestedKey(i), ErrLengthMin)

-----------------------------------------------------------------------------
(* C6 *)

\* C6: Validate succeeds exactly when the aggregator errs holds no entry
\* when it returns, and it yields a Result or an aggregated error.
C6_SuccessIffNoEntries ==
    Done =>
        /\ Succeeded <=> (DOMAIN errs = {})
        /\ Succeeded \/ Aggregated

-----------------------------------------------------------------------------
(* C7 *)

OptionalAbsent(f) == ~Required(f) /\ Absent(f)

\* The round of the field loop for an optional field that is absent changes
\* neither the aggregator nor the object.
C7_Step ==
    /\ pc = "fields"
    /\ idx <= Len(schema.fields)
    /\ OptionalAbsent(schema.fields[idx])
    => errs' = errs /\ object' = object

\* A successful return has no value for an optional absent field, and the
\* call succeeds when the input is clean and every field is optional and
\* absent.
C7_End ==
    pc' = "done" =>
        /\ ret'.kind = "ok" =>
            \A i \in DOMAIN schema.fields :
                OptionalAbsent(schema.fields[i])
                    => Get(ret'.val.m, UniqueName(schema.fields[i])) = None
        /\ StructurallyClean
           /\ (\A i \in DOMAIN schema.fields : OptionalAbsent(schema.fields[i]))
                => ret'.kind = "ok"

\* C7: an optional field that is absent from the document and the overlays
\* is skipped: it adds no error entry and no value, and the call succeeds
\* if nothing else fails.
C7_OptionalAbsentSkipped == [][C7_Step /\ C7_End]_vars

\* A successful call that stored one field and skipped an optional absent
\* one.
C7_Witness ==
    /\ Done
    /\ Succeeded
    /\ DOMAIN ret.val.m # {}
    /\ \E i \in DOMAIN schema.fields :
        /\ OptionalAbsent(schema.fields[i])
        /\ Get(ret.val.m, UniqueName(schema.fields[i])) = None

-----------------------------------------------------------------------------
(* C8 *)

ConflictMessages == {"duplicated url parameter", "duplicate parameter in url and json"}

Conflicting(k) == DuplicatedAcrossOverlays(k) \/ InJsonAndOverlay(k)

IsConflictEntry(k) ==
    /\ HasEntry(k)
    /\ Cause(ret.err.errors[k]).kind = "leaf"
    /\ Cause(ret.err.errors[k]).msg \in ConflictMessages

-----------------------------------------------------------------------------
(* C9 *)

\* C9 as stated, for a JSON text that is empty or well-formed: an overlay
\* key that names an object or array field makes Validate fail with an
\* entry under that key, permissive or not, and the raw overlay string is
\* never stored under it.
C9_OverlayOnNestedRejected ==
    WellFormed =>
        \A k \in OverlayKeys :
            DeclaredNested(k) =>
                /\ Done => Failed /\ HasEntry(k)
                /\ k \in DOMAIN object => object[k].t # "string"

-----------------------------------------------------------------------------
(* C10 *)

\* The input has a structural problem at key k.
StructuralProblemAt(k) ==
    \/ Conflicting(k)
    \/ ~schema.allowUnknownFields /\ ~Declared(k)
    \/ ~schema.allowUnknownFields /\ k \in OverlayKeys /\ DeclaredNested(k)

\* C10: the structural problems of an input, a malformed JSON text
\* included, are collected and reported together in one aggregated error:
\* the call fails with an aggregate that has an entry for every key with a
\* structural problem, and a malformed text yields an aggregate too.
C10_StructuralErrorsBatched ==
    Done =>
        /\ ~WellFormed => Aggregated
        /\ \A k \in TopLevelKeys \cup OverlayKeys :
                StructuralProblemAt(k) => HasEntry(k)

-----------------------------------------------------------------------------
(* C11 *)

\* The errors the structural phase records on the input of the call.
StructuralErrors == structural(schema, json, urlParams).errs

\* A return taken while the structural phase holds an error returns exactly
\* the errors recorded so far and has stored no field.
C11_ShortCircuit ==
    pc = "failfirst" /\ DOMAIN errs # {} =>
        /\ pc' = "done"
        /\ ret' = Err([kind |-> "agg", errors |-> StructuralErrors])
        /\ errs' = errs
        /\ object' = EmptyMap

\* The field loop is entered only from the "fail first" test with an empty
\* aggregator, is never left for the structural phase again, and no field
\* is stored before it.
C11_Order ==
    /\ pc' = "fields" /\ pc # "fields" =>
            pc = "failfirst" /\ DOMAIN errs = {} /\ StructuralErrors = EmptyMap
    /\ pc = "fields" => pc' \in {"fields", "done"}
    /\ pc' \in {"start", "overlays", "failfirst"} => object' = EmptyMap
    /\ pc \in {"start", "overlays"} /\ WellFormed => pc' \in {"overlays", "failfirst"}

\* C11: Validate runs the structural phase and then the field phase: when
\* the structural phase records an error the call returns exactly the
\* structural errors and no field is coerced, validated or reported as
\* required; the field phase starts only after the structural phase ended
\* with an empty aggregator.
C11_TwoPhases == [][C11_ShortCircuit /\ C11_Order]_vars

\* A call that returned its structural errors although a required field is
\* absent and another field is present: neither shows in the outcome.
C11_Witness ==
    /\ Done
    /\ WellFormed
    /\ StructuralErrors # EmptyMap
    /\ ret = Err([kind |-> "agg", errors |-> StructuralErrors])
    /\ object = EmptyMap
    /\ \E i, k \in DOMAIN schema.fields :
        /\ Required(schema.fields[i])
        /\ Absent(schema.fields[i])
        /\ ~HasEntry(Name(schema.fields[i]))
        /\ Name(schema.fields[k]) \in TopLevelKeys

-----------------------------------------------------------------------------
(* C12 *)

\* C12: whatever order the range loops over the overlay maps, over the
\* nested error map and over urlPair take, a call returns the outcome of
\* the call that takes one fixed order: two calls on the same Schema, JSON
\* text and overlay maps both succeed with equal Result Objects or both fail
\* with equal errors under equal keys.
C12_Deterministic ==
    Done =>
        /\ ret = Validate(schema, json, urlParams)
        /\ ret.kind \in {"ok", "err"}

\* Calls whose loops had a choice of order: one that failed with two nested
\* errors merged, and one that merged an overlay map of two keys.
C12_Witness ==
    /\ Done
    /\ \/ /\ Aggregated
          /\ \E i \in DOMAIN schema.fields :
                /\ Cardinality(FieldMergeKeys(json, urlPair, schema.fields[i])) > 1
                /\ FieldMergeKeys(json, urlPair, schema.fields[i]) \subseteq DOMAIN ret.err.errors
       \/ /\ Succeeded
          /\ \E i \in DOMAIN urlParams : Cardinality(DOMAIN urlParams[i]) > 1

-----------------------------------------------------------------------------
(* C13 *)

\* C13: no step of a Validate call writes to the Schema (field list,
\* requiredness, multiplicity, embedded schemas, validators, permissive
\* flag), and with two calls interleaved on one shared Schema each call
\* returns what Validate returns on its own arguments when it runs alone.
C13_SchemaReadOnly ==
    [][/\ schema' = schema
       /\ pc' = "done" => ret' = Validate(schema, json', urlParams')
       /\ other'.pc = "done" =>
            other'.ret = Validate(schema, other'.json, other'.urlParams)]_vars

\* The two calls are both inside their field loops, each with locals of its
\* own.
C13_Witness ==
    /\ pc = "fields"
    /\ other.pc = "fields"
    /\ idx = 2
    /\ other.idx = 2
    /\ errs # other.errs

-----------------------------------------------------------------------------
(* C14 *)

DistinctLeafNames(fields) ==
    \A a, b \in DOMAIN fields : a # b => Name(fields[a]) # Name(fields[b])

DistinctQualifiedNames(fields) ==
    \A a, b \in DOMAIN fields :
        a # b /\ QualifiedName(fields[a]) # EmptyString
            => QualifiedName(fields[a]) # QualifiedName(fields[b])

\* The field list a construction call would give its Schema.
RequestedFields ==
    IF call.op = "WithFields" THEN call.fields ELSE call.s.fields \o call.another.fields

\* C14: every Schema WithFields or Extend returns has pairwise distinct
\* leaf names and pairwise distinct non-empty qualified names, and a call
\* whose field list would hold a duplicate leaf name or a duplicate
\* non-empty qualified name panics.
C14_NamesUnique ==
    call.op \in {"WithFields", "Extend"} /\ call.ret # None =>
        /\ call.ret.kind = "ok" =>
            /\ DistinctLeafNames(call.ret.val.fields)
            /\ DistinctQualifiedNames(call.ret.val.fields)
        /\ ~DistinctLeafNames(RequestedFields) \/ ~DistinctQualifiedNames(RequestedFields)
                => call.ret.kind = "panic"

\* An Extend call that panicked on two wrapped fields of one view name,
\* and a WithFields call that returned a Schema of three fields.
C14_Witness ==
    \/ /\ call.op = "Extend"
       /\ call.ret.kind = "panic"
       /\ \E a \in DOMAIN call.s.fields, b \in DOMAIN call.another.fields :
            /\ Name(call.s.fields[a]) = Name(call.another.fields[b])
            /\ QualifiedName(call.s.fields[a]) # QualifiedName(call.another.fields[b])
    \/ /\ call.op = "WithFields"
       /\ call.ret.kind = "ok"
       /\ Len(call.ret.val.fields) = 3

-----------------------------------------------------------------------------
(* C15 *)

\* C15: s.Extend(other) returns a new Schema whose fields are those of s
\* followed by those of other, in their order, and whose permissive flag is
\* the OR of the two flags; it panics when s and other share a leaf name;
\* and it leaves s and other as they were.
C15_Extend ==
    [][call.op = "Extend" /\ call.ret = None /\ call'.ret # None =>
        /\ call'.s = call.s
        /\ call'.another = call.another
        /\ (call'.ret.kind = "panic") <=>
                \E a \in DOMAIN call.s.fields, b \in DOMAIN call.another.fields :
                    Name(call.s.fields[a]) = Name(call.another.fields[b])
        /\ call'.ret.kind = "ok" =>
            /\ Len(call'.ret.val.fields) = Len(call.s.fields) + Len(call.another.fields)
            /\ \A a \in DOMAIN call.s.fields : call'.ret.val.fields[a] = call.s.fields[a]
            /\ \A b \in DOMAIN call.another.fields :
                    call'.ret.val.fields[Len(call.s.fields) + b] = call.another.fields[b]
            /\ call'.ret.val.allowUnknownFields
                    = (call.s.allowUnknownFields \/ call.another.allowUnknownFields)]_vars

\* An Extend call of a permissive Schema on a non-permissive one, both with
\* fields, that returned a permissive Schema.
C15_Witness ==
    /\ call.op = "Extend"
    /\ call.ret.kind = "ok"
    /\ call.s.fields # <<>>
    /\ call.another.fields # <<>>
    /\ ~call.s.allowUnknownFields
    /\ call.another.allowUnknownFields
    /\ call.ret.val.allowUnknownFields

-----------------------------------------------------------------------------
(* C16 *)

\* The 16 bits of limb i of the 64-bit pattern whose bits from position lo
\* up to hi-1 are one.
OnesLimb(lo, hi, i) ==
    LET base == LimbBits * (i - 1)
        a == (IF lo > base THEN lo ELSE base) - base
        b == (IF hi < base + LimbBits THEN hi ELSE base + LimbBits) - base
    IN IF b <= a THEN 0 ELSE Pow2(b) - Pow2(a)

Ones(lo, hi) == [i \in 1..Limbs |-> OnesLimb(lo, hi, i)]

OverflowErr(r) == r.kind = "err" /\ r.err.kind = "leaf" /\ r.err.msg = ErrIntegerOverflow

\* C16: an N-bit signed target takes 2^(N-1)-1 and -2^(N-1) with the exact
\* value and rejects 2^(N-1) and -2^(N-1)-1 as integer overflow; an N-bit
\* unsigned target takes 0 and 2^N-1 and rejects -1 and 2^N as integer
\* overflow.
C16_IntegerBounds ==
    call.op = "typedJson" /\ call.ret # None /\ call.res.t = "Number" =>
        LET N == call.T.bits
            raw == call.res.r
        IN
        /\ call.T.kind = "int" =>
            /\ raw = Literal(FALSE, DecPred(DecPow2(N - 1)))
                    => call.ret = Ok(Integer(call.T, Ones(0, N - 1)))
            /\ raw = Literal(TRUE, DecPow2(N - 1))
                    => call.ret = Ok(Integer(call.T, Ones(N - 1, 64)))
            /\ raw = Literal(FALSE, DecPow2(N - 1)) => OverflowErr(call.ret)
            /\ raw = Literal(TRUE, DecSucc(DecPow2(N - 1))) => OverflowErr(call.ret)
        /\ call.T.kind = "uint" =>
            /\ raw = <<"0">> => call.ret = Ok(Integer(call.T, Zero64))
            /\ raw = Literal(FALSE, DecPred(DecPow2(N)))
                    => call.ret = Ok(Integer(call.T, Ones(0, N)))
            /\ raw = <<"-", "1">> => OverflowErr(call.ret)
            /\ raw = Literal(FALSE, DecPow2(N)) => OverflowErr(call.ret)

\* The smallest int64 was coerced to int64.
C16_Witness ==
    /\ call.op = "typedJson"
    /\ call.T = IntType(64)
    /\ call.res = NumRaw(Literal(TRUE, DecPow2(63)))
    /\ call.ret.kind = "ok"

-----------------------------------------------------------------------------
(* C17 *)

Returned == call.op = "Get" /\ call.ret # None

\* The first k segments of the path of the call.
Prefix(k) == SubSeq(call.parts, 1, k)

\* The container or value the path of the call reaches after k segments.
ReachedAfter(k) ==
    IF k = 0 THEN Some([t |-> "Data", m |-> call.data]) ELSE Get(call.data, Prefix(k))

IsMap(val) == TypeOf(val) \in {"Data", "valueObject"}
IsSequence(val) == TypeOf(val) \in {"[]string", "[]ValueObject"}
IsScalar(val) == ~IsMap(val) /\ ~IsSequence(val)

\* Segment k+1 names a key the map reached after k segments does not have.
MissingKeyAt(k) ==
    /\ ReachedAfter(k).kind = "some"
    /\ IsMap(ReachedAfter(k).val)
    /\ call.parts[k + 1] \notin DOMAIN ReachedAfter(k).val.m

\* A scalar is reached after k segments and segments remain.
ScalarAt(k) ==
    /\ k > 0
    /\ ReachedAfter(k).kind = "some"
    /\ IsScalar(ReachedAfter(k).val)

\* C17: Get returns the empty option, and does not panic, when a segment
\* names a key missing from the map it is applied to, and when segments
\* remain after the walk has reached a scalar.
C17_MissingIsEmpty ==
    Returned =>
        \A k \in 0 .. Len(call.parts) - 1 :
            MissingKeyAt(k) \/ ScalarAt(k) => call.ret.returned = None

\* A typed query of user.name.x, where user.name is a string, returned.
C17_Witness ==
    /\ Returned
    /\ call.T = "int"
    /\ call.parts = <<"user", "name", "x">>
    /\ ScalarAt(2)
    /\ call.ret.returned = None

-----------------------------------------------------------------------------
(* C18 *)

\* The segments that are the decimal text of an index of a sequence.
IndexTexts(val) == {ToString(i) : i \in 0 .. Len(val.a) - 1}

\* Segment k+1 is applied to a sequence and is not one of its indexes.
BadIndexAt(k) ==
    /\ k > 0
    /\ ReachedAfter(k).kind = "some"
    /\ IsSequence(ReachedAfter(k).val)
    /\ call.parts[k + 1] \notin IndexTexts(ReachedAfter(k).val)

\* The path leads to a value whose type is not the requested one.
WrongType ==
    /\ call.T # "any"
    /\ Get(call.data, call.parts).kind = "some"
    /\ TypeOf(Get(call.data, call.parts).val) # call.T

\* C18: Get panics when a segment applied to a sequence is not an integer
\* or is an index outside 0..len-1, and a typed getter panics when the value
\* at the path has another type than the requested one.
C18_MalformedQueryPanics ==
    Returned =>
        /\ \A k \in 0 .. Len(call.parts) - 1 :
                BadIndexAt(k) => call.ret.returned.kind = "panic"
        /\ WrongType => call.ret.returned.kind = "panic"

\* A query for a string at tags.-1, tags.2 or tags.x, or at tags, returned.
C18_Witness ==
    /\ Returned
    /\ call.T = "string"
    /\ call.ret.returned.kind = "panic"
    /\ \/ call.parts \in {<<"tags", "-1">>, <<"tags", "2">>, <<"tags", "x">>} /\ BadIndexAt(1)
       \/ call.parts = <<"tags">> /\ WrongType

-----------------------------------------------------------------------------
(* C19 *)

\* The value a present scalar string field is coerced to: the string of its
\* JSON member, or else of its overlay pair.
CoercedString(f) ==
    IF Name(f) \in TopLevelKeys THEN StoredString(json.m[Name(f)])
    ELSE [t |-> "string",
          v |-> urlParams[CHOOSE i \in DOMAIN urlParams : Name(f) \in DOMAIN urlParams[i]][Name(f)]]

\* C19: after a successful Validate, Get(field.UniqueName()) returns the
\* coerced value of every declared field that was present in the JSON or in
\* an overlay, dotted qualified names included, for every Schema WithFields
\* accepts.
C19_StoredUnderUniqueName ==
    Done /\ Succeeded =>
        \A k \in DOMAIN schema.fields :
            ~Absent(schema.fields[k])
                => Get(ret.val.m, UniqueName(schema.fields[k]))
                        = Some(CoercedString(schema.fields[k]))

-----------------------------------------------------------------------------
(* C20 *)

\* The segments of the keys of the model, and strings.Split(k, ".") for a
\* key made of at most three of them.
PathSegments == {KeyOrder[i] : i \in DOMAIN KeyOrder} \ {"t.c.email"}
SplitPath(k) == CHOOSE q \in SeqsUpTo(PathSegments, 3) \ {<<>>} : JoinPath(q) = k

\* The scalar and array leaves of a value with the segments leading to
\* them, the value being reached by path.
RECURSIVE Leaves(_, _)
Leaves(val, path) ==
    IF IsMap(val)
    THEN UNION {Leaves(val.m[k], Append(path, k)) : k \in DOMAIN val.m}
    ELSE {[path |-> path, val |-> val]}

Flattened == call.op = "FlatMap" /\ call.ret # None

\* C20: FlatMap returns a single-level map whose values are scalars and
\* arrays, never a Result Object or a map; Get(k) on the original object
\* returns the value of every key k of it; and every scalar or array leaf of
\* the original object is in it under its dot-joined path.
C20_FlatMap ==
    Flattened =>
        /\ \A k \in DOMAIN call.ret.val : ~IsMap(call.ret.val[k])
        /\ \A k \in DOMAIN call.ret.val :
                Get(call.vo.m, SplitPath(k)) = Some(call.ret.val[k])
        /\ \A leaf \in Leaves(call.vo, <<>>) :
                /\ JoinPath(leaf.path) \in DOMAIN call.ret.val
                /\ call.ret.val[JoinPath(leaf.path)] = leaf.val

-----------------------------------------------------------------------------
(* C21 *)

\* The keys of the lines of a text are in strictly ascending order.
Ascending(lines) ==
    \A i, j \in DOMAIN lines : i < j => StringLess(lines[i].key, lines[j].key)

\* What Error() returns lists exactly the entries of the aggregator, in
\* ascending order of their paths, and is empty for no entries.
ListsSorted(e) ==
    /\ {Error(e).lines[i].key : i \in DOMAIN Error(e).lines} = DOMAIN e.errors
    /\ Len(Error(e).lines) = Cardinality(DOMAIN e.errors)
    /\ \A i \in DOMAIN Error(e).lines :
            Error(e).lines[i].error = e.errors[Error(e).lines[i].key]
    /\ Ascending(Error(e).lines)
    /\ (e.isNil \/ DOMAIN e.errors = {}) <=> Error(e) = EmptyText

\* C21: the aggregator holds one error per path: add of an error for a
\* path overwrites what the path had and changes no other path, add of nil
\* changes nothing, err() is nil exactly when there is no entry, and Error()
\* lists the entries in lexicographic order of the paths and is the empty
\* string for an empty or nil aggregator.
C21_Aggregator ==
    [][call'.op = "validationError" =>
        /\ call'.adds > call.adds =>
            LET fieldName == call'.added[1]
                er == call'.added[2]
            IN /\ er.kind = "nil" => call'.e = call.e
               /\ er.kind # "nil" =>
                    /\ DOMAIN call'.e.errors = DOMAIN call.e.errors \cup {fieldName}
                    /\ call'.e.errors[fieldName] = er
                    /\ \A k \in DOMAIN call.e.errors \ {fieldName} :
                            call'.e.errors[k] = call.e.errors[k]
        /\ (errOf(call'.e).kind = "nil") <=> (DOMAIN call'.e.errors = {})
        /\ ListsSorted(call'.e)
        /\ ListsSorted(call.e)]_vars

\* After three add calls, the last with an error, two paths have an entry
\* and Error() lists two lines.
C21_Witness ==
    /\ call.op = "validationError"
    /\ call.adds = 3
    /\ Cardinality(DOMAIN call.e.errors) = 2
    /\ call.added[2].kind # "nil"
    /\ Len(Error(call.e).lines) = 2

-----------------------------------------------------------------------------
(* C22 *)

\* The object after name is set to val, every other property as it was.
WithProperty(data, name, val) ==
    [k \in DOMAIN data \cup {name} |-> IF k = name THEN val ELSE data[k]]

\* C22: Add panics and leaves the object unchanged when the name exists or
\* contains a dot, and otherwise inserts the name with the value; Update
\* panics and leaves the object unchanged when the name does not exist, and
\* otherwise replaces the value; so Add never overwrites a property and
\* Update never creates one.
C22_AddUpdate ==
    [][call'.op = "Data" /\ call'.calls > call.calls =>
        LET name == JoinPath(call'.last.parts)
            exists == name \in DOMAIN call.data
            dotted == Len(call'.last.parts) > 1
        IN
        /\ call'.last.fn = "Add" =>
            /\ call'.last.panic <=> (exists \/ dotted)
            /\ call'.last.panic => call'.data = call.data
            /\ ~call'.last.panic => call'.data = WithProperty(call.data, name, call'.last.val)
            /\ \A k \in DOMAIN call.data : call'.data[k] = call.data[k]
        /\ call'.last.fn = "Update" =>
            /\ call'.last.panic <=> ~exists
            /\ call'.last.panic => call'.data = call.data
            /\ ~call'.last.panic => call'.data = WithProperty(call.data, name, call'.last.val)
            /\ DOMAIN call'.data = DOMAIN call.data]_vars

\* Add of a name has been followed by an Add of the same name, which
\* panicked.
C22_Witness ==
    /\ call.op = "Data"
    /\ call.calls = 2
    /\ call.last.fn = "Add"
    /\ call.last.parts = <<"name">>
    /\ call.last.panic
    /\ call.data["name"] # call.last.val

-----------------------------------------------------------------------------
(* C23 *)

\* The text is digits, a point, digits, the two runs of digits given by
\* where the point is (0: no point).
DigitsAround(s, point) ==
    \A i \in DOMAIN s : i # point => IsDigit(s[i])

\* The digits in front of the point that are no leading zeros.
RECURSIVE DropZeros(_)
DropZeros(s) == IF s # <<>> /\ Head(s) = "0" THEN DropZeros(Tail(s)) ELSE s

\* s, the sign taken off, is a decimal numeral within (precision, scale).
NumeralWithin(s, precision, scale) ==
    LET point == IndexOfPoint(s)
        whole == IF point = 0 THEN s ELSE SubSeq(s, 1, point - 1)
        frac == IF point = 0 THEN <<>> ELSE SubSeq(s, point + 1, Len(s))
    IN /\ DigitsAround(s, point)
       /\ Len(whole) + Len(frac) > 0
       /\ Len(frac) <= scale
       /\ Len(DropZeros(whole)) + Len(frac) <= precision

\* C23: Decimal(precision, scale) accepts a non-empty string exactly when it
\* is an optional sign followed by decimal digits with at most one decimal
\* point, without exponent, with at most scale fractional digits and at
\* most precision significant digits.
C23_DecimalShape ==
    call.op = "Decimal" /\ call.ret # None =>
        ((call.ret = Nil) <=> NumeralWithin(Unsigned(call.s), call.precision, call.scale))

-----------------------------------------------------------------------------
(* C24 *)

MismatchErr(r) == r.kind = "err" /\ r.err.kind = "leaf" /\ r.err.msg = ErrTypeMismatch

\* The digits of a raw text without point, the sign taken off, as numbers.
Magnitude(raw) ==
    LET d == IF raw[1] = "-" THEN Tail(raw) ELSE raw
    IN [i \in DOMAIN d |-> DigitOf(d[i])]

\* a < b for numerals without leading zero.
DecLess(a, b) ==
    \/ Len(a) < Len(b)
    \/ /\ Len(a) = Len(b)
       /\ \E i \in DOMAIN a : a[i] < b[i] /\ \A j \in 1 .. i - 1 : a[j] = b[j]

\* The number the raw text writes lies outside the N bits of T.
ExceedsWidth(T, raw) ==
    IF T.kind = "uint" THEN ~DecLess(Magnitude(raw), DecPow2(T.bits))
    ELSE IF raw[1] = "-" THEN DecLess(DecPow2(T.bits - 1), Magnitude(raw))
    ELSE ~DecLess(Magnitude(raw), DecPow2(T.bits - 1))

\* The raw text is the decimal rendering of what gjson parsed from it.
Canonical(T, res) ==
    IF T.kind = "int" THEN FormatInt(ResultInt(res)) = res.r
    ELSE FormatUint(ResultUint(res)) = res.r

-----------------------------------------------------------------------------
(* C25 *)

\* An error that is, or wraps, an aggregate.
HoldsAggregate(e) == AsValidationError(e).kind = "agg"

\* C25: the aggregated error Validate returns is flat: every entry maps its
\* path to a single leaf error, the failures of a nested validation being
\* unwrapped or merged, and no entry's error is itself an aggregate.
C25_FlatAggregate ==
    Done /\ Aggregated =>
        \A k \in DOMAIN ret.err.errors : ~HoldsAggregate(ret.err.errors[k])

-----------------------------------------------------------------------------
(* C26 *)

\* The field fails on the document j: it is required and has no member, or
\* its member is refused.
FieldFails(f, j) ==
    IF Exists(Get_json(j, Name(f))) THEN validate(f, Get_json(j, Name(f))).kind = "err"
    ELSE f.required

\* The number of failing fields among the fields from i on of a schema
\* without embedded schema.
RECURSIVE FailingLeaves(_, _, _)
FailingLeaves(fields, j, i) ==
    IF i > Len(fields) THEN 0
    ELSE (IF FieldFails(fields[i], j) THEN 1 ELSE 0) + FailingLeaves(fields, j, i + 1)

\* The number of failing fields among the fields from i on, the fields of an
\* embedded object schema counted one by one.
RECURSIVE FailingFields(_, _, _)
FailingFields(fields, j, i) ==
    IF i > Len(fields) THEN 0
    ELSE (IF fields[i].object /\ ~fields[i].array /\ Exists(Get_json(j, Name(fields[i])))
          THEN FailingLeaves(fields[i].embedded[1].fields, Get_json(j, Name(fields[i])), 1)
          ELSE IF FieldFails(fields[i], j) THEN 1 ELSE 0)
         + FailingFields(fields, j, i + 1)

\* The member of every embedded object field has no key its schema does not
\* declare, so that the nested validation reaches its field phase.
NestedClean ==
    \A i \in DOMAIN schema.fields :
        LET f == schema.fields[i]
            node == Get_json(json, Name(f))
        IN f.object /\ ~f.array /\ node.t = "Object" =>
                \A k \in DOMAIN node.m :
                    \E x \in DOMAIN f.embedded[1].fields : Name(f.embedded[1].fields[x]) = k

\* C26: the failures of the field phase are collected in full: k failing
\* fields, a field of an embedded object schema counted apart from a field
\* of the same name of the enclosing schema, give k entries under distinct
\* paths (an array field gives one entry for each failing element, so at
\* least k), and no failure replaces the entry of another field.
C26_AllFailuresCollected ==
    Done /\ StructurallyClean /\ NestedClean /\ urlParams = <<>>
         /\ FailingFields(schema.fields, json, 1) > 0 =>
        /\ Aggregated
        /\ Cardinality(DOMAIN ret.err.errors) >= FailingFields(schema.fields, json, 1)
        /\ ~schema.fields[2].array =>
                Cardinality(DOMAIN ret.err.errors) = FailingFields(schema.fields, json, 1)

-----------------------------------------------------------------------------
(* C27 *)

\* The array field of the schema of the call and its member in the document.
ArrayFieldOfCall == schema.fields[2]
ArrayNode == Get_json(json, Name(ArrayFieldOfCall))

\* The element is accepted by the array field: a string of the set and of
\* the length the field asks for, or an object its embedded schema accepts.
ElementPasses(element) ==
    IF ArrayFieldOfCall.object
    THEN element.t = "Object" /\ Validate(userSchema, element, <<>>).kind = "ok"
    ELSE element.t = "String" /\ element.v \in {"ab", "cd"}

\* The element as it is stored.
CoercedElement(element) ==
    IF ArrayFieldOfCall.object THEN Validate(userSchema, element, <<>>).val
    ELSE [t |-> "string", v |-> element.v]

\* The field phase ran on a document whose member for the array field is an
\* array.
ArrayValidated ==
    /\ Done /\ StructurallyClean
    /\ ArrayFieldOfCall.array
    /\ ArrayNode.t = "Array"

\* C27: when every element of an array field passes, the value stored for
\* the field is a sequence of the same length holding the coerced elements
\* (Result Objects for objects) in input order; when any element fails, the
\* field fails as a whole and no value is stored for it.
C27_ArrayAllOrNothing ==
    ArrayValidated =>
        IF \A i \in DOMAIN ArrayNode.a : ElementPasses(ArrayNode.a[i])
        THEN /\ Name(ArrayFieldOfCall) \in DOMAIN object
             /\ Len(object[Name(ArrayFieldOfCall)].a) = Len(ArrayNode.a)
             /\ \A i \in DOMAIN ArrayNode.a :
                    object[Name(ArrayFieldOfCall)].a[i] = CoercedElement(ArrayNode.a[i])
        ELSE /\ Failed
             /\ Name(ArrayFieldOfCall) \notin DOMAIN object
             /\ \E i \in DOMAIN ArrayNode.a :
                    HasEntry(IndexKey(Name(ArrayFieldOfCall), i - 1))

\* Two elements were stored in input order.
C27_Witness ==
    /\ ArrayValidated
    /\ Name(ArrayFieldOfCall) \in DOMAIN object
    /\ Len(object[Name(ArrayFieldOfCall)].a) = 2
    /\ ArrayNode.a[1] # ArrayNode.a[2]

\* Arrays with a failing element after a passing one left nothing stored.
C27_WitnessFailed ==
    /\ ArrayValidated
    /\ Len(ArrayNode.a) = 2
    /\ ElementPasses(ArrayNode.a[1]) /\ ~ElementPasses(ArrayNode.a[2])
    /\ Name(ArrayFieldOfCall) \notin DOMAIN object

-----------------------------------------------------------------------------
(* C28 *)

\* The overlay key gave a declared field its value: the field has no member
\* in the document.
Consumed(k) == Declared(k) /\ k \notin TopLevelKeys

\* The raw string of overlay key k as the copy stores it.
RawOverlayString(k) == [t |-> "string", v |-> urlPair[k]]

\* The top-level keys under which the declared fields store their values.
FieldRoots == {UniqueName(schema.fields[i])[1] : i \in DOMAIN schema.fields}

\* C28: in permissive mode exactly the overlay keys no declared field
\* consumed are copied into the Result Object as raw strings; a consumed
\* key, that of a field with a dotted unique name included, appears only as
\* the coerced value under the field's unique name and is not copied in
\* addition; and a copied key never replaces a value that is there already.
C28_OverlayCopy ==
    Done /\ Succeeded /\ schema.allowUnknownFields =>
        \A k \in OverlayKeys :
            IF Consumed(k)
            THEN /\ Get(ret.val.m, UniqueName(schema.fields[FieldNamed(k)]))
                        = Some(RawOverlayString(k))
                 /\ UniqueName(schema.fields[FieldNamed(k)]) # <<k>>
                        => k \notin DOMAIN ret.val.m
            ELSE /\ k \in DOMAIN ret.val.m
                 /\ k \notin FieldRoots => ret.val.m[k] = RawOverlayString(k)

-----------------------------------------------------------------------------
(* C29 *)

\* C29: every descriptor a public constructor returns has an embedded
\* schema exactly when its multiplicity is Object or ArrayOfObject; ObjectField
\* and ArrayOfObjectField without a schema are fatal at construction; so the
\* validation of an Object field never comes to a missing embedded schema.
C29_EmbeddedIffObject ==
    call.op = "construct" =>
        /\ call.ret.kind = "ok" =>
                (Len(embeddedObject(call.ret.val)) = 1 <=> IsObject(call.ret.val))
        /\ call.ret # None /\ call.ctor \in {"ObjectField", "ArrayOfObjectField"}
                /\ call.nested = <<>> => call.ret.kind = "panic"
        /\ Done => ret.kind # "panic"

-----------------------------------------------------------------------------
(* C30 *)

\* The schema of the call has the one field owner, an embedded object, and
\* the document has a member for it that is not a JSON object.
NonObjectForObjectField ==
    /\ call.op = "construct"
    /\ call.ctor = "ObjectField"
    /\ Exists(Get_json(json, "owner"))
    /\ Get_json(json, "owner").t # "Object"

\* C30: Validate never succeeds when the JSON value of an embedded Object
\* field is not a JSON object (a string, a number, a boolean, an array or
\* null): it fails with an error for that field, whether the nested fields
\* are required or optional and whether the nested schema is permissive.
C30_NonObjectRejected ==
    Done /\ NonObjectForObjectField => Failed

====
